---- MODULE Spec2Model ----
(***************************************************************************)
(* A model of the decision-and-dispatch pipeline of the tool agent:        *)
(*   core/tools/registry.py   ToolRegistry  (name -> tool instance)        *)
(*   core/tools/base.py       ToolResult, BaseTool.validate_inputs         *)
(*   execution/executor.py    ToolExecutor.execute and its staged events   *)
(*   agent/agent.py           Agent.run, _extract_json                     *)
(*                                                                         *)
(* Python values are encoded as follows.  A str is a TLA+ string, except   *)
(* where the code looks inside it (str.strip, the regular expressions,     *)
(* json.loads): there it is a sequence of characters/tokens.  None is the  *)
(* string "None" (for an error message: the empty sequence).  An f-string  *)
(* is the sequence of its fragments, so that "the message contains the     *)
(* name" is a statement about the fragments.  A dict is the insertion-     *)
(* ordered sequence of its <<key, value>> pairs.  A raised exception is a  *)
(* control state ("raised") carrying the exception's type.                 *)
(***************************************************************************)
EXTENDS Integers, Sequences, FiniteSets, TLC

VARIABLES
    tools,      \* ToolRegistry._tools: insertion-ordered dict name -> tool
    calls,      \* the activations of ToolExecutor.execute, by caller
    clock,      \* the wall clock read by _now()
    callback_calls, \* how many times callbacks have been called so far
    agent,      \* the activation of Agent.run
    reg         \* the registry's caller: its last operation and the outcome

vars == <<tools, calls, clock, callback_calls, agent, reg>>

(***************************************************************************)
(* Bounds.                                                                 *)
(***************************************************************************)
MaxArgs == 2        \* keyword arguments passed in one execute call

(***************************************************************************)
(* Generic helpers on sequences and on insertion-ordered dicts.            *)
(***************************************************************************)
Range(s) == {s[i] : i \in 1..Len(s)}

DictKeys(d) == [i \in 1..Len(d) |-> d[i][1]]

DictValues(d) == [i \in 1..Len(d) |-> d[i][2]]

DictHas(d, k) == \E i \in 1..Len(d) : d[i][1] = k

DictGet(d, k) == d[CHOOSE i \in 1..Len(d) : d[i][1] = k][2]

\* d[k] = v: an existing key keeps its position, a new key goes last.
DictSet(d, k, v) ==
    IF DictHas(d, k)
    THEN [i \in 1..Len(d) |-> IF d[i][1] = k THEN <<k, v>> ELSE d[i]]
    ELSE Append(d, <<k, v>>)

\* del d[k]
DictDel(d, k) == SelectSeq(d, LAMBDA p : p[1] # k)

\* sep.join(parts)
RECURSIVE Join(_, _)
Join(parts, sep) ==
    IF Len(parts) = 0 THEN <<>>
    ELSE IF Len(parts) = 1 THEN <<parts[1]>>
    ELSE <<parts[1], sep>> \o Join(Tail(parts), sep)

(***************************************************************************)
(* Tool names and Python's ordering of str (by code point, a proper prefix *)
(* first), which sorted() uses in list_names.                              *)
(***************************************************************************)
ToolNames == {"a", "ab"}

CodePoints(n) ==
    CASE n = "a"  -> <<97>>
      [] n = "ab" -> <<97, 98>>
      [] n = "zz" -> <<122, 122>>
      [] OTHER    -> <<>>

RECURSIVE LexLess(_, _)
LexLess(s, t) ==
    IF Len(t) = 0 THEN FALSE
    ELSE IF Len(s) = 0 THEN TRUE
    ELSE IF s[1] # t[1] THEN s[1] < t[1]
    ELSE LexLess(Tail(s), Tail(t))

StrLess(m, n) == LexLess(CodePoints(m), CodePoints(n))

\* sorted(names): insertion sort, stable.
RECURSIVE InsertSorted(_, _)
InsertSorted(n, s) ==
    IF Len(s) = 0 THEN <<n>>
    ELSE IF StrLess(n, s[1]) THEN <<n>> \o s
    ELSE <<s[1]>> \o InsertSorted(n, Tail(s))

RECURSIVE Sorted(_)
Sorted(s) == IF Len(s) = 0 THEN <<>> ELSE InsertSorted(s[Len(s)], Sorted(SubSeq(s, 1, Len(s) - 1)))

(***************************************************************************)
(* The tools that exist: instances of BaseTool subclasses.  Each has the   *)
(* class attributes name and input_schema; t4 overrides validate_inputs    *)
(* with code that raises, t5 left name at BaseTool's default "".           *)
(* t3 lists "z" as required without declaring it under properties.         *)
(***************************************************************************)
ToolIds == {"t1", "t2", "t3", "t4", "t5"}

tool_name(t) ==
    CASE t \in {"t1", "t2"} -> "a"
      [] t \in {"t3", "t4"} -> "ab"
      [] OTHER              -> ""

\* input_schema["properties"], in the dict's order (keys only)
schema_properties(t) ==
    CASE t = "t1" -> <<"x", "y">>
      [] t = "t2" -> <<"y", "x">>
      [] t = "t3" -> <<"x">>
      [] OTHER    -> <<>>

\* input_schema["required"]
schema_required(t) ==
    CASE t = "t1" -> <<"x">>
      [] t = "t2" -> <<"x", "y">>
      [] t = "t3" -> <<"x", "z">>
      [] OTHER    -> <<>>

validate_overridden(t) == t = "t4"

ArgKeys == {"x", "y", "z"}

ArgVals == {"v", "None"}

\* the keyword arguments of a call: a dict from some keys to values
Kwargs == UNION {[K -> ArgVals] : K \in {S \in SUBSET ArgKeys : Cardinality(S) <= MaxArgs}}

(***************************************************************************)
(* ToolResult (base.py): success, output, error, metadata.  metadata is    *)
(* the set of its <<key, value>> items; default_factory=dict gives {}.     *)
(***************************************************************************)
ToolResult(success, output, error, metadata) ==
    [success |-> success, output |-> output, error |-> error, metadata |-> metadata]

\* a failure that always carries a raw key
Failure_raw(error) == ToolResult(FALSE, "None", error, {<<"raw", "None">>})

Failure(error) == ToolResult(FALSE, "None", error, {})

NoResult == [success |-> FALSE, output |-> "None", error |-> <<>>, metadata |-> {<<"unset", "unset">>}]

(***************************************************************************)
(* BaseTool.validate_inputs: the keys of properties that are listed in     *)
(* required, in the order of properties, that kwargs lacks.                *)
(***************************************************************************)
validate_inputs(t, kwargs) ==
    LET required == SelectSeq(schema_properties(t),
                              LAMBDA key : key \in Range(schema_required(t)))
    IN  SelectSeq(required, LAMBDA f : f \notin DOMAIN kwargs)

(***************************************************************************)
(* ToolRegistry.                                                           *)
(***************************************************************************)
get_or_none(d, name) == IF DictHas(d, name) THEN DictGet(d, name) ELSE "None"

\* the outcome of an operation that may raise: the dict afterwards, the value
\* returned, the exception raised and its message
Outcome(d, value, exc, message) ==
    [tools |-> d, value |-> value, exc |-> exc, message |-> message]

no_name_message(tool) == <<"Tool ", tool, " has no name defined.">>

duplicate_name_message(name) ==
    <<"A tool named ", name, " is already registered. ",
      "Use force_register if you intend to overwrite it.">>

\* register without the duplicate check
register_overwriting(d, tool) ==
    IF tool_name(tool) = ""
    THEN Outcome(d, "None", "ValueError", no_name_message(tool))
    ELSE Outcome(DictSet(d, tool_name(tool), tool), "None", "None", <<>>)

\* register that stores the tool before it reports a duplicate name
register_storing_first(d, tool) ==
    IF tool_name(tool) = ""
    THEN Outcome(d, "None", "ValueError", no_name_message(tool))
    ELSE IF DictHas(d, tool_name(tool))
    THEN Outcome(DictSet(d, tool_name(tool), tool), "None", "ValueError",
                 duplicate_name_message(tool_name(tool)))
    ELSE Outcome(DictSet(d, tool_name(tool), tool), "None", "None", <<>>)

\* register(tool)
register(d, tool) ==
    IF tool_name(tool) = ""
    THEN Outcome(d, "None", "ValueError", no_name_message(tool))
    ELSE IF DictHas(d, tool_name(tool))
    THEN Outcome(d, "None", "ValueError", duplicate_name_message(tool_name(tool)))
    ELSE Outcome(DictSet(d, tool_name(tool), tool), "None", "None", <<>>)

\* force_register that leaves an existing entry alone
force_register_keeping(d, tool) ==
    IF tool_name(tool) = ""
    THEN Outcome(d, "None", "ValueError", no_name_message(tool))
    ELSE IF DictHas(d, tool_name(tool)) THEN Outcome(d, "None", "None", <<>>)
    ELSE Outcome(DictSet(d, tool_name(tool), tool), "None", "None", <<>>)

\* force_register without the check of the name
force_register_unchecked(d, tool) ==
    Outcome(DictSet(d, tool_name(tool), tool), "None", "None", <<>>)

\* force_register(tool)
force_register(d, tool) ==
    IF tool_name(tool) = ""
    THEN Outcome(d, "None", "ValueError", no_name_message(tool))
    ELSE Outcome(DictSet(d, tool_name(tool), tool), "None", "None", <<>>)

\* unregister that accepts a name that is not registered
unregister_lenient(d, name) == Outcome(DictDel(d, name), "None", "None", <<>>)

\* unregister(name)
unregister(d, name) ==
    IF ~DictHas(d, name)
    THEN Outcome(d, "None", "KeyError", <<"No tool named ", name, " is registered.">>)
    ELSE Outcome(DictDel(d, name), "None", "None", <<>>)

\* list_names without sorted()
list_names_unsorted(d) == DictKeys(d)

list_names(d) == Sorted(DictKeys(d))

list_metadata(d) == DictValues(d)

\* ToolExecutor.available_tools() and tool_metadata()
available_tools(d) == list_names(d)

tool_metadata(d) == list_metadata(d)

\* get(name)
get(d, name) ==
    IF ~DictHas(d, name)
    THEN Outcome(d, "None", "KeyError",
                 <<"Tool ", name, " not found. ", "Available tools: ">> \o list_names(d))
    ELSE Outcome(d, DictGet(d, name), "None", <<>>)

\* Every dict register / force_register / unregister can build from {}:
\* distinct non-empty names, each bound to a tool of that name.
RegPairs == {<<tool_name(t), t>> : t \in {u \in ToolIds : tool_name(u) # ""}}

Registries ==
    {d \in UNION {[1..k -> RegPairs] : k \in 0..Cardinality(ToolNames)} :
        \A i, j \in 1..Len(d) : d[i][1] = d[j][1] => i = j}

(***************************************************************************)
(* ToolExecutor (executor.py).                                             *)
(***************************************************************************)
CallIds == {"c1", "c2"}

\* What a caller may pass as tool_name: a str, registered or not, or (from a
\* JSON decision) a value that is not hashable, such as a list.
ToolNameValues == ToolNames \cup {"zz", "<list>"}

\* hash(v) succeeds: a list and a dict have no hash
Hashable(v) == v \notin {"<list>", "<dict>"}

\* event_callback: None, a function that never raises ("observer"), a
\* function that may raise an Exception each time it is called ("faulty"),
\* a value that cannot be called at all (calling it is a TypeError), or
\* main.py's console_event_callback ("console").
Callbacks == {"None", "observer", "faulty", "noncallable", "console"}

\* Whether callback(event) raises: the choices open at one call of it
CallbackRaises(callback) ==
    CASE callback = "faulty"      -> BOOLEAN
      [] callback = "noncallable" -> {TRUE}
      [] OTHER                    -> {FALSE}

\* console_event_callback(event) formats event['tool'] with the format spec
\* <20, which str and int accept and list and dict reject with a TypeError
console_event_callback_raises(tool) == tool \in {"<list>", "<dict>"}

\* Whether the callback of the activation rec raises when handed an event
RaisesAt(rec) ==
    IF rec.callback = "console"
    THEN {console_event_callback_raises(rec.tool_name)}
    ELSE CallbackRaises(rec.callback)

\* What tool.execute(**kwargs) does when it is reached: return a ToolResult
\* with success True or False, raise an Exception, or return something that
\* is no ToolResult (None).
Behaviours == {"ok", "fail", "raise", "bad_return"}

Stages == {"tool_lookup_started", "tool_lookup_failed", "tool_lookup_completed",
           "validation_started", "validation_failed", "execution_started",
           "execution_completed", "execution_failed"}

IdleCall ==
    [pc |-> "idle", tool_name |-> "None", kwargs |-> <<>>, callback |-> "None",
     beh |-> "None", tool |-> "None", result |-> NoResult, exc |-> "None",
     attempted |-> <<>>, delivered |-> <<>>, cbRaised |-> {}, invocations |-> <<>>,
     pending |-> <<>>, resume |-> [pc |-> "None", result |-> NoResult], order |-> <<>>]

\* _make_event that leaves the tool field unset
make_event_untooled(type, stage, message, tool, now) ==
    [type |-> type, stage |-> stage, message |-> message, tool |-> "None", timestamp |-> now]

make_event(type, stage, message, tool, now) ==
    [type |-> type, stage |-> stage, message |-> message, tool |-> tool, timestamp |-> now]

\* How _emit(callback, event) ends when the callback, if called, raises or not.
\* "skipped" (callback is None), "delivered", "swallowed" (the except clause),
\* or "propagated" (the exception leaves _emit).
emit_unguarded(callback, raises) ==
    CASE callback = "None" -> "skipped"
      [] raises -> "propagated"
      [] OTHER -> "delivered"

emit(callback, raises) ==
    CASE callback = "None" -> "skipped"
      [] raises -> "swallowed"
      [] OTHER -> "delivered"

\* The activation once _make_event(...) has built ev, the argument of the
\* self._emit(...) that execute is about to call; after it execute goes on at pc
\* with result.
Made(rec, ev, pc, result) ==
    [rec EXCEPT !.pc = "emit", !.pending = <<ev>>,
                !.resume = [pc |-> pc, result |-> result]]

\* _emit handing the event to a dispatcher that calls the callback later,
\* newest event first
AfterEmit_unordered(rec, ev, raises, pc, result) ==
    LET called == rec.callback \in {"observer", "faulty", "console"}
    IN  [rec EXCEPT !.attempted = Append(@, ev),
                    !.delivered = IF called THEN <<ev>> \o @ ELSE @,
                    !.order = IF called THEN Append(@, callback_calls + 1) ELSE @,
                    !.pending = <<>>,
                    !.resume = IdleCall.resume,
                    !.pc = pc, !.result = result]

\* The activation after self._emit(...) of event ev, continuing at pc with
\* result (an exception that leaves _emit ends the activation instead).
\* order holds, for each event the callback was called with, the number of
\* that call among all the calls of callbacks since the start (callback_calls).
AfterEmit(rec, ev, raises, pc, result) ==
    LET how == emit(rec.callback, raises)
        called == rec.callback \in {"observer", "faulty", "console"}
        e == [rec EXCEPT !.attempted = Append(@, ev),
                         !.delivered = IF called THEN Append(@, ev) ELSE @,
                         !.order = IF called THEN Append(@, callback_calls + 1) ELSE @,
                         !.cbRaised = IF how \in {"swallowed", "propagated"}
                                      THEN @ \cup {ev.stage} ELSE @,
                         !.pending = <<>>,
                         !.resume = IdleCall.resume]
    IN  IF how = "propagated"
        THEN [e EXCEPT !.pc = "raised", !.exc = "CallbackError"]
        ELSE [e EXCEPT !.pc = pc, !.result = result]

\* The ToolResult or exception of tool.execute(**kwargs)
tool_execute(beh) ==
    CASE beh = "ok"   -> ToolResult(TRUE, "out", <<>>, {<<"size_bytes", "1">>})
      [] beh = "fail" -> ToolResult(FALSE, "None", <<"File already exists">>, {})
      [] OTHER        -> NoResult

\* f"Tool '{tool_name}' is not registered. Available: {list_names()}"
lookup_failed_message_unnamed(name, available) ==
    <<"Tool is not registered. Available: ">> \o available

lookup_failed_message(name, available) ==
    <<"Tool '", name, "' is not registered. Available: ">> \o available

\* f"Missing required input(s) for '{tool_name}': {', '.join(missing)}"
missing_message(name, missing) ==
    <<"Missing required input(s) for '", name, "': ">> \o Join(missing, ", ")

\* the except clause's ToolResult: the message and metadata={"traceback": tb}
exception_result_no_traceback(name, exc, tb) ==
    ToolResult(FALSE, "None", <<"Unexpected error in tool '", name, "': ", exc>>, {})

exception_result(name, exc, tb) ==
    ToolResult(FALSE, "None", <<"Unexpected error in tool '", name, "': ", exc>>,
               {<<"traceback", tb>>})

AtStage(c, pc) == calls[c].pc = pc

\* the activation at the entry of execute
Entered(name, kwargs, callback) ==
    [IdleCall EXCEPT !.pc = "entry", !.tool_name = name, !.kwargs = kwargs,
                     !.callback = callback]

\* execute(tool_name, event_callback=callback, **kwargs) is entered.
Begin(c, name, kwargs, callback) ==
    /\ calls[c].pc = "idle"
    /\ calls' = [calls EXCEPT ![c] = Entered(name, kwargs, callback)]
    /\ UNCHANGED <<reg, tools, clock, agent, callback_calls>>

\* Stage 1: tool_lookup_started
LookupStarted(c) ==
    /\ AtStage(c, "entry")
    /\ LET rec == calls[c]
            ev == make_event("info", "tool_lookup_started",
                             <<"Looking up tool '", rec.tool_name, "' in the registry.">>,
                             rec.tool_name, clock)
        IN  calls' = [calls EXCEPT ![c] = Made(rec, ev, "lookup", NoResult)]
    /\ clock' = clock + 1
    /\ UNCHANGED <<reg, tools, agent, callback_calls>>

\* self._registry.get_or_none(tool_name) hashes tool_name: TypeError
LookupUnhashable(c) ==
    /\ AtStage(c, "lookup")
    /\ ~Hashable(calls[c].tool_name)
    /\ calls' = [calls EXCEPT ![c].pc = "raised", ![c].exc = "TypeError"]
    /\ UNCHANGED <<reg, tools, clock, agent, callback_calls>>

\* tool is None: tool_lookup_failed, return the failure
LookupFailed(c) ==
    /\ AtStage(c, "lookup")
    /\ Hashable(calls[c].tool_name)
    /\ get_or_none(tools, calls[c].tool_name) = "None"
    /\ LET rec == calls[c]
            msg == lookup_failed_message(rec.tool_name, list_names(tools))
            ev == make_event("error", "tool_lookup_failed", msg, rec.tool_name, clock)
        IN  calls' = [calls EXCEPT ![c] = Made(rec, ev, "returned", Failure(msg))]
    /\ clock' = clock + 1
    /\ UNCHANGED <<reg, tools, agent, callback_calls>>

\* Stage 2: tool_lookup_completed
LookupCompleted(c) ==
    /\ AtStage(c, "lookup")
    /\ Hashable(calls[c].tool_name)
    /\ get_or_none(tools, calls[c].tool_name) # "None"
    /\ LET rec == [calls[c] EXCEPT !.tool = get_or_none(tools, calls[c].tool_name)]
            ev == make_event("status", "tool_lookup_completed",
                             <<"Tool '", rec.tool_name, "' found successfully.">>,
                             rec.tool_name, clock)
        IN  calls' = [calls EXCEPT ![c] = Made(rec, ev, "validation", NoResult)]
    /\ clock' = clock + 1
    /\ UNCHANGED <<reg, tools, agent, callback_calls>>

\* Stage 3 without its event
ValidationStarted_unannounced(c) ==
    /\ AtStage(c, "validation")
    /\ calls' = [calls EXCEPT ![c].pc = "validate"]
    /\ UNCHANGED <<reg, tools, clock, agent, callback_calls>>

\* Stage 3: validation_started
ValidationStarted(c) ==
    /\ AtStage(c, "validation")
    /\ LET rec == calls[c]
            ev == make_event("info", "validation_started",
                             <<"Validating inputs for tool '", rec.tool_name, "'.">>,
                             rec.tool_name, clock)
        IN  calls' = [calls EXCEPT ![c] = Made(rec, ev, "validate", NoResult)]
    /\ clock' = clock + 1
    /\ UNCHANGED <<reg, tools, agent, callback_calls>>

\* tool.validate_inputs(kwargs) is the tool's own code when overridden: it raises
ValidateRaises(c) ==
    /\ AtStage(c, "validate")
    /\ validate_overridden(calls[c].tool)
    /\ calls' = [calls EXCEPT ![c].pc = "raised", ![c].exc = "ValidateError"]
    /\ UNCHANGED <<reg, tools, clock, agent, callback_calls>>

\* validation_failed that goes on to execute the tool instead of returning
ValidationFailed_continuing(c) ==
    /\ AtStage(c, "validate")
    /\ ~validate_overridden(calls[c].tool)
    /\ validate_inputs(calls[c].tool, calls[c].kwargs) # <<>>
    /\ LET rec == calls[c]
            missing == validate_inputs(rec.tool, rec.kwargs)
            msg == missing_message(rec.tool_name, missing)
            ev == make_event("error", "validation_failed", msg, rec.tool_name, clock)
        IN  calls' = [calls EXCEPT ![c] = Made(rec, ev, "execute", NoResult)]
    /\ clock' = clock + 1
    /\ UNCHANGED <<reg, tools, agent, callback_calls>>

\* Stage 3a: validation_failed, return the failure
ValidationFailed(c) ==
    /\ AtStage(c, "validate")
    /\ ~validate_overridden(calls[c].tool)
    /\ validate_inputs(calls[c].tool, calls[c].kwargs) # <<>>
    /\ LET rec == calls[c]
            missing == validate_inputs(rec.tool, rec.kwargs)
            msg == missing_message(rec.tool_name, missing)
            ev == make_event("error", "validation_failed", msg, rec.tool_name, clock)
        IN  calls' = [calls EXCEPT ![c] = Made(rec, ev, "returned", Failure(msg))]
    /\ clock' = clock + 1
    /\ UNCHANGED <<reg, tools, agent, callback_calls>>

\* Stage 4: execution_started
ExecutionStarted(c) ==
    /\ AtStage(c, "validate")
    /\ ~validate_overridden(calls[c].tool)
    /\ validate_inputs(calls[c].tool, calls[c].kwargs) = <<>>
    /\ LET rec == calls[c]
            ev == make_event("status", "execution_started",
                             <<"Executing tool '", rec.tool_name, "'.">>,
                             rec.tool_name, clock)
        IN  calls' = [calls EXCEPT ![c] = Made(rec, ev, "execute", NoResult)]
    /\ clock' = clock + 1
    /\ UNCHANGED <<reg, tools, agent, callback_calls>>

\* tool.execute(**kwargs) entered twice
Invoked_twice(rec) ==
    LET invocation == [tool |-> rec.tool, kwargs |-> rec.kwargs, returned |-> NoResult]
    IN  [rec EXCEPT !.invocations = @ \o <<invocation, invocation>>]

\* tool.execute reached through a second lookup of the name in the registry
Invoked_resolving_again(rec) ==
    [rec EXCEPT !.invocations = Append(@, [tool |-> get_or_none(tools, rec.tool_name),
                                           kwargs |-> rec.kwargs,
                                           returned |-> NoResult])]

\* the activation once tool.execute(**kwargs) is entered: the instance held
\* in the local variable tool is called with the kwargs of the call
Invoked(rec) ==
    [rec EXCEPT !.invocations = Append(@, [tool |-> rec.tool, kwargs |-> rec.kwargs,
                                           returned |-> NoResult])]

\* result = tool.execute(**kwargs) (line 237) is called: the tool's code runs,
\* for as long as it likes
ToolExecute(c) ==
    /\ AtStage(c, "execute")
    /\ calls' = [calls EXCEPT ![c] = [Invoked(calls[c]) EXCEPT !.pc = "in_tool"]]
    /\ UNCHANGED <<reg, tools, clock, agent, callback_calls>>

\* the tool's code ends as beh: it returns a ToolResult or something else,
\* or raises; what execute does with the outcome comes after
ToolReturns(c) ==
    /\ AtStage(c, "in_tool")
    /\ \E beh \in Behaviours :
        calls' = [calls EXCEPT ![c] =
            [calls[c] EXCEPT !.pc = "invoked", !.beh = beh,
                             !.invocations = [@ EXCEPT ![Len(@)].returned = tool_execute(beh)]]]
    /\ UNCHANGED <<reg, tools, clock, agent, callback_calls>>

\* Stage 4a: tool.execute raised: execution_failed, return the failure
ExecutionFailed(c) ==
    /\ AtStage(c, "invoked")
    /\ calls[c].beh = "raise"
    /\ LET rec == calls[c]
            tb == "Traceback (most recent call last): Exception: boom"
            res == exception_result(rec.tool_name, "boom", tb)
            ev == make_event("error", "execution_failed", res.error, rec.tool_name, clock)
        IN  calls' = [calls EXCEPT ![c] = Made(rec, ev, "returned", res)]
    /\ clock' = clock + 1
    /\ UNCHANGED <<reg, tools, agent, callback_calls>>

\* tool.execute returned no ToolResult: result.success is an AttributeError
ExecutionBadReturn(c) ==
    /\ AtStage(c, "invoked")
    /\ calls[c].beh = "bad_return"
    /\ calls' = [calls EXCEPT ![c].pc = "raised", ![c].exc = "AttributeError"]
    /\ UNCHANGED <<reg, tools, clock, agent, callback_calls>>

\* the type of the execution_completed event
completed_type_status(result) == "status"

completed_type(result) == IF result.success THEN "status" ELSE "error"

\* Stage 5: execution_completed, return the tool's result
ExecutionCompleted(c) ==
    /\ AtStage(c, "invoked")
    /\ calls[c].beh \in {"ok", "fail"}
    /\ LET rec == calls[c]
            result == rec.invocations[Len(rec.invocations)].returned
            msg == IF result.success
                   THEN <<"Tool '", rec.tool_name, "' completed successfully. Output: ",
                          result.output>>
                   ELSE <<"Tool '", rec.tool_name, "' returned a failure: ">> \o result.error
            ev == make_event(completed_type(result), "execution_completed", msg,
                             rec.tool_name, clock)
        IN  calls' = [calls EXCEPT ![c] = Made(rec, ev, "returned", result)]
    /\ clock' = clock + 1
    /\ UNCHANGED <<reg, tools, agent, callback_calls>>

\* self._emit(callback=event_callback, event=...) with the event just built:
\* the callback, unless it is None, is called with it, and what it raises is
\* swallowed; then execute goes on, or returns, as the stage says
Emit(c) ==
    /\ AtStage(c, "emit")
    /\ \E raises \in RaisesAt(calls[c]) :
        LET rec == calls[c]
        IN  calls' = [calls EXCEPT ![c] =
                AfterEmit(rec, rec.pending[1], raises, rec.resume.pc, rec.resume.result)]
    /\ callback_calls' = IF calls[c].callback \in {"observer", "faulty", "console"}
                         THEN callback_calls + 1 ELSE callback_calls
    /\ UNCHANGED <<reg, tools, clock, agent>>

\* One step of the activation c of execute
ExecuteStep(c) ==
    \/ LookupStarted(c)
    \/ LookupUnhashable(c)
    \/ LookupFailed(c)
    \/ LookupCompleted(c)
    \/ ValidationStarted(c)
    \/ ValidateRaises(c)
    \/ ValidationFailed(c)
    \/ ExecutionStarted(c)
    \/ ToolExecute(c)
    \/ ToolReturns(c)
    \/ ExecutionFailed(c)
    \/ ExecutionBadReturn(c)
    \/ ExecutionCompleted(c)
    \/ Emit(c)

(***************************************************************************)
(* Text (agent.py).  The model backend's response is a sequence of tokens: *)
(* the JSON punctuation, " " (one whitespace character), "FENCE" (three    *)
(* backticks), "json" and "w" (words of prose), "null", "1", and string    *)
(* literals written with their quotes.  A string literal whose content     *)
(* holds punctuation, whitespace or a fence is written token by token      *)
(* between two Quote tokens.                                               *)
(***************************************************************************)
StringTokens ==
    {"\"tool\"", "\"arguments\"", "\"a\"", "\"ab\"", "\"zz\"", "\"x\"", "\"y\"",
     "\"z\"", "\"v\"", "\"event_callback\"", "\"tool_name\""}

\* the str a string literal denotes
Unquote(tok) ==
    CASE tok = "\"tool\""           -> "tool"
      [] tok = "\"arguments\""      -> "arguments"
      [] tok = "\"a\""              -> "a"
      [] tok = "\"ab\""             -> "ab"
      [] tok = "\"zz\""             -> "zz"
      [] tok = "\"x\""              -> "x"
      [] tok = "\"y\""              -> "y"
      [] tok = "\"z\""              -> "z"
      [] tok = "\"v\""              -> "v"
      [] tok = "\"event_callback\"" -> "event_callback"
      [] OTHER                      -> "tool_name"

\* the character " on its own
Quote == "\""

\* the str that the characters of a string literal's content make up
RECURSIVE StrOf(_)
StrOf(content) ==
    IF content = <<>> THEN "" ELSE Head(content) \o StrOf(Tail(content))

\* the string literal that starts at position i: [ok, s, next]
ParseString(text, i) ==
    IF text[i] \in StringTokens
    THEN [ok |-> TRUE, s |-> Unquote(text[i]), next |-> i + 1]
    ELSE
        \* the literal ends at the next " character, which a literal written as
        \* one token would open
        LET ends == {j \in (i + 1)..Len(text) : text[j] = Quote \/ text[j] \in StringTokens}
            j == CHOOSE e \in ends : \A k \in ends : e <= k
        IN  IF ends = {} THEN [ok |-> FALSE, s |-> "", next |-> 0]
            ELSE IF text[j] # Quote THEN [ok |-> FALSE, s |-> "", next |-> 0]
            ELSE [ok |-> TRUE, s |-> StrOf(SubSeq(text, i + 1, j - 1)), next |-> j + 1]

IsSpace(tok) == tok = " "

\* str.strip()
RECURSIVE LStrip(_)
LStrip(text) ==
    IF Len(text) > 0 /\ IsSpace(text[1]) THEN LStrip(Tail(text)) ELSE text

RECURSIVE RStrip(_)
RStrip(text) ==
    IF Len(text) > 0 /\ IsSpace(text[Len(text)])
    THEN RStrip(SubSeq(text, 1, Len(text) - 1)) ELSE text

Strip(text) == RStrip(LStrip(text))

\* the first position >= i of text that holds no whitespace (Len + 1: none)
RECURSIVE SkipSpace(_, _)
SkipSpace(text, i) ==
    IF i <= Len(text) /\ IsSpace(text[i]) THEN SkipSpace(text, i + 1) ELSE i

\* The pattern FENCE (?:json)? \s* ( \{ .*? \} ) \s* FENCE matched at position i: the positions
\* <<open, close>> of group 1 for the shortest .*?, or <<0, 0>>
FenceMatchAt(text, i) ==
    IF ~(i <= Len(text) /\ text[i] = "FENCE") THEN <<0, 0>>
    ELSE
        LET tagged == i + 1 <= Len(text) /\ text[i + 1] = "json"
            \* (?:json)? is greedy: with the tag first, then without it
            starts == IF tagged THEN <<i + 2, i + 1>> ELSE <<i + 1>>
            Try(from) ==
                LET open == SkipSpace(text, from)
                    closes == {j \in (open + 1)..Len(text) :
                                  /\ text[j] = "}"
                                  /\ LET k == SkipSpace(text, j + 1)
                                     IN  k <= Len(text) /\ text[k] = "FENCE"}
                IN  IF open <= Len(text) /\ text[open] = "{" /\ closes # {}
                    THEN <<open, CHOOSE j \in closes : \A k \in closes : j <= k>>
                    ELSE <<0, 0>>
        IN  IF Try(starts[1]) # <<0, 0>> THEN Try(starts[1])
            ELSE IF Len(starts) = 2 THEN Try(starts[2])
            ELSE <<0, 0>>

\* _extract_json(text)
extract_json(text) ==
    LET fences == {i \in 1..Len(text) : FenceMatchAt(text, i) # <<0, 0>>}
        opens == {i \in 1..Len(text) : text[i] = "{"}
        first == CHOOSE i \in opens : \A k \in opens : i <= k
        closes == {j \in 1..Len(text) : text[j] = "}" /\ j > first}
    IN  IF fences # {}
        THEN LET m == FenceMatchAt(text, CHOOSE i \in fences : \A k \in fences : i <= k)
             IN  SubSeq(text, m[1], m[2])
        ELSE IF opens # {} /\ closes # {}
        THEN SubSeq(text, first, CHOOSE j \in closes : \A k \in closes : k <= j)
        ELSE Strip(text)

(***************************************************************************)
(* json.loads.  A JSON value is [t |-> "null"], [t |-> "str", s |-> ...],  *)
(* [t |-> "num"], [t |-> "list", items |-> <<values>>] or [t |-> "dict",   *)
(* items |-> the insertion-ordered <<key, value>> pairs].  A parse yields  *)
(* [ok, val, next]: next is the position after the value.                  *)
(***************************************************************************)
ParseFail == [ok |-> FALSE, val |-> [t |-> "null"], next |-> 0]

RECURSIVE ParseValue(_, _)
RECURSIVE ParseMembers(_, _, _)
RECURSIVE ParseElements(_, _, _)

ParseValue(text, i0) ==
    LET i == SkipSpace(text, i0)
    IN  IF i > Len(text) THEN ParseFail
        ELSE IF text[i] = "null" THEN [ok |-> TRUE, val |-> [t |-> "null"], next |-> i + 1]
        ELSE IF text[i] = "1" THEN [ok |-> TRUE, val |-> [t |-> "num"], next |-> i + 1]
        ELSE IF text[i] \in StringTokens \cup {Quote}
        THEN LET r == ParseString(text, i)
             IN  IF r.ok THEN [ok |-> TRUE, val |-> [t |-> "str", s |-> r.s], next |-> r.next]
                 ELSE ParseFail
        ELSE IF text[i] = "{"
        THEN LET j == SkipSpace(text, i + 1)
             IN  IF j <= Len(text) /\ text[j] = "}"
                 THEN [ok |-> TRUE, val |-> [t |-> "dict", items |-> <<>>], next |-> j + 1]
                 ELSE ParseMembers(text, j, <<>>)
        ELSE IF text[i] = "["
        THEN LET j == SkipSpace(text, i + 1)
             IN  IF j <= Len(text) /\ text[j] = "]"
                 THEN [ok |-> TRUE, val |-> [t |-> "list", items |-> <<>>], next |-> j + 1]
                 ELSE ParseElements(text, j, <<>>)
        ELSE ParseFail

\* "key" : value, then "," and the next member, or "}"
ParseMembers(text, i0, acc) ==
    LET i == SkipSpace(text, i0)
    IN  IF ~(i <= Len(text) /\ text[i] \in StringTokens \cup {Quote}) THEN ParseFail
        ELSE IF ~ParseString(text, i).ok THEN ParseFail
        ELSE
          LET c == SkipSpace(text, ParseString(text, i).next)
          IN  IF ~(c <= Len(text) /\ text[c] = ":") THEN ParseFail
              ELSE
                LET v == ParseValue(text, c + 1)
                    e == SkipSpace(text, v.next)
                    items == DictSet(acc, ParseString(text, i).s, v.val)
                IN  IF ~v.ok \/ e > Len(text) THEN ParseFail
                    ELSE IF text[e] = "}"
                    THEN [ok |-> TRUE, val |-> [t |-> "dict", items |-> items], next |-> e + 1]
                    ELSE IF text[e] = "," THEN ParseMembers(text, e + 1, items)
                    ELSE ParseFail

\* value, then "," and the next element, or "]"
ParseElements(text, i0, acc) ==
    LET v == ParseValue(text, i0)
        e == SkipSpace(text, v.next)
    IN  IF ~v.ok \/ e > Len(text) THEN ParseFail
        ELSE IF text[e] = "]"
        THEN [ok |-> TRUE, val |-> [t |-> "list", items |-> Append(acc, v.val)], next |-> e + 1]
        ELSE IF text[e] = "," THEN ParseElements(text, e + 1, Append(acc, v.val))
        ELSE ParseFail

\* json.loads(s): one value, whitespace around it, nothing else
json_loads(s) ==
    LET v == ParseValue(s, 1)
    IN  IF v.ok /\ SkipSpace(s, v.next) = Len(s) + 1 THEN v ELSE ParseFail

(***************************************************************************)
(* Agent (agent.py).                                                       *)
(***************************************************************************)
MaxInstruction == 2     \* characters in an instruction

\* an instruction: whitespace and other characters
Instructions == UNION {[1..n -> {" ", "i"}] : n \in 0..MaxInstruction}

\* the tokens of {"tool": <tool>, "arguments": <arguments>}; an empty
\* sequence leaves the member out
DecisionText(tool, arguments) ==
    LET t == IF tool = <<>> THEN <<>> ELSE <<"\"tool\"", ":", " ">> \o tool
        a == IF arguments = <<>> THEN <<>> ELSE <<"\"arguments\"", ":", " ">> \o arguments
        sep == IF tool = <<>> \/ arguments = <<>> THEN <<>> ELSE <<",", " ">>
    IN  <<"{">> \o t \o sep \o a \o <<"}">>

ToolTexts ==
    {<<>>, <<"null">>, <<"1">>, <<"\"a\"">>, <<"\"ab\"">>, <<"\"zz\"">>,
     <<"[", "\"a\"", "]">>}

ArgumentTexts ==
    {<<>>, <<"null">>, <<"[", "]">>, <<"\"v\"">>, <<"{", "}">>,
     <<"{", "\"x\"", ":", "\"v\"", "}">>,
     <<"{", "\"x\"", ":", "null", ",", "\"y\"", ":", "\"v\"", "}">>,
     <<"{", "\"z\"", ":", "1", "}">>,
     <<"{", "\"x\"", ":", "\"v\"", ",", "\"event_callback\"", ":", "\"v\"", "}">>,
     <<"{", "\"x\"", ":", "\"v\"", ",", "\"event_callback\"", ":", "null", "}">>,
     <<"{", "\"x\"", ":", "\"v\"", ",", "\"tool_name\"", ":", "\"a\"", "}">>}

BareDecisions == {DecisionText(t, a) : t \in ToolTexts, a \in ArgumentTexts}

\* responses that wrap a decision in prose or in a fence, a decision one of
\* whose strings holds a fence, and responses that hold no decision
OtherTexts ==
    LET d == DecisionText(<<"\"a\"">>, <<"{", "\"x\"", ":", "\"v\"", "}">>)
        n == DecisionText(<<"null">>, <<"{", "}">>)
        q == DecisionText(<<"null">>,
                 <<"{", "\"x\"", ":", Quote, "FENCE", "{", "w", "}", "FENCE", Quote, "}">>)
    IN  {<<"w", " ">> \o d \o <<" ", "w">>,
         q,
         <<"w", " ", "FENCE", "json", " ">> \o d \o <<" ", "FENCE">>,
         <<"FENCE">> \o d \o <<"FENCE", " ", "w", " ", "{", "}">>,
         <<"{", "w", "}", " ", "FENCE", " ">> \o n \o <<"FENCE">>,
         d \o <<" ">> \o d,
         <<" ", "w", " ", "w", " ">>,
         <<>>,
         <<"[", "1", "]">>,
         <<" ", "\"a\"", " ">>,
         <<"null">>,
         <<"{", "w", "}">>,
         <<"FENCE", "json", "{", "FENCE">>}

RawTexts == BareDecisions \cup OtherTexts

\* type(v).__name__ of a parsed JSON value
TypeName(v) ==
    CASE v.t = "null" -> "NoneType"
      [] v.t = "str"  -> "str"
      [] v.t = "num"  -> "int"
      [] OTHER        -> v.t

\* a parsed JSON value as the executor's tool_name
AsToolName(v) ==
    CASE v.t = "str"  -> v.s
      [] v.t = "num"  -> "<int>"
      [] v.t = "list" -> "<list>"
      [] OTHER        -> "<dict>"

\* a parsed JSON value as the value of a keyword argument
AsArgument(v) ==
    CASE v.t = "str"  -> v.s
      [] v.t = "null" -> "None"
      [] v.t = "num"  -> "<int>"
      [] v.t = "list" -> "<list>"
      [] OTHER        -> "<dict>"

\* the dict of a JSON object as a Python dict of keyword arguments
AsKwargs(items, keys) == [k \in keys |-> AsArgument(DictGet(items, k))]

\* decision.get(key, default)
JsonGet(decision, key, default) ==
    IF DictHas(decision.items, key) THEN DictGet(decision.items, key) ELSE default

\* str(i) of enumerate(metadata, start=1)
Numeral(i) == CASE i = 1 -> "1" [] i = 2 -> "2" [] i = 3 -> "3" [] OTHER -> "n"

\* the lines that _build_tool_listing appends for the i-th descriptor, each the
\* fragments of its f-string; the model's schemas give no type and no
\* description to a property, so arg_type is "any" and arg_desc is ""
tool_lines(t, i) ==
    LET props == schema_properties(t)
    IN  <<<<Numeral(i), ". Tool name: ", tool_name(t)>>,
          <<"   Description: ", t>>>>
        \o (IF props = <<>> THEN <<>> ELSE <<<<"   Arguments:">>>>)
        \o [j \in 1..Len(props) |->
               <<"     - ", props[j], " [any]",
                 IF props[j] \in Range(schema_required(t))
                 THEN " (required)" ELSE " (optional)",
                 ":", " ", "">>]
        \o <<<<"">>>>

\* "\n".join(lines), as fragments
RECURSIVE JoinLines(_)
JoinLines(lines) ==
    IF Len(lines) = 0 THEN <<>>
    ELSE IF Len(lines) = 1 THEN lines[1]
    ELSE lines[1] \o <<"\n">> \o JoinLines(Tail(lines))

\* str.rstrip() of fragments of which each is whitespace or ends in none
RECURSIVE rstrip(_)
rstrip(fragments) ==
    IF Len(fragments) > 0 /\ fragments[Len(fragments)] \in {"", " ", "\n"}
    THEN rstrip(SubSeq(fragments, 1, Len(fragments) - 1)) ELSE fragments

RECURSIVE listing_lines(_, _)
listing_lines(metadata, i) ==
    IF i > Len(metadata) THEN <<>>
    ELSE tool_lines(metadata[i], i) \o listing_lines(metadata, i + 1)

\* _build_tool_listing(metadata): "\n".join(lines).rstrip()
build_tool_listing(metadata) == rstrip(JoinLines(listing_lines(metadata, 1)))

\* _USER_PROMPT_TEMPLATE.format(tool_listing=..., instruction=...)
user_prompt(tool_listing, instruction) ==
    <<"AVAILABLE TOOLS:", "\n">> \o tool_listing
        \o <<"\n", "\n", "USER INSTRUCTION:", "\n">> \o instruction \o <<"\n">>

MaxTurns == 2           \* lines that main.repl hands to agent.run in one session

\* backend_calls and executor_calls count the calls of the backend and of
\* executor.execute since the agent was built, runs the calls of run; entry
\* holds the two counts as they were when the current run was entered.
IdleAgent ==
    [pc |-> "idle", instruction |-> <<>>, prompt |-> <<>>, raw |-> <<>>,
     result |-> NoResult, exc |-> "None", backend_calls |-> 0, executor_calls |-> 0,
     backend_exc |-> "None", has_text |-> FALSE, patched |-> FALSE, runs |-> 0,
     entry |-> [backend_calls |-> 0, executor_calls |-> 0]]

\* the agent as run(instruction) is entered
EnteredRun(instruction) ==
    [agent EXCEPT !.instruction = instruction, !.runs = @ + 1,
                  !.entry = [backend_calls |-> agent.backend_calls,
                             executor_calls |-> agent.executor_calls]]

\* the calls of the backend and of executor.execute made by the current run
BackendCallsOfRun == agent.backend_calls - agent.entry.backend_calls

ExecutorCallsOfRun == agent.executor_calls - agent.entry.executor_calls

\* `not instruction.strip()`
is_empty_unstripped(instruction) == instruction = <<>>

is_empty(instruction) == Strip(instruction) = <<>>

\* run(instruction) with an empty instruction
RunEmpty(instruction) ==
    /\ agent.pc = "idle"
    /\ is_empty(instruction)
    /\ agent' = [EnteredRun(instruction) EXCEPT
                    !.pc = "returned",
                    !.result = Failure(<<"Instruction must not be empty.">>)]
    /\ UNCHANGED <<reg, tools, calls, clock, callback_calls>>

\* 1. Build prompt
RunPrompt(instruction) ==
    /\ agent.pc = "idle"
    /\ ~is_empty(instruction)
    /\ agent' = [EnteredRun(instruction) EXCEPT
                    !.pc = "generate",
                    !.prompt = user_prompt(build_tool_listing(list_metadata(tools)),
                                           instruction)]
    /\ UNCHANGED <<reg, tools, calls, clock, callback_calls>>

(***************************************************************************)
(* main.repl (main.py): the loop.  A line is read and stripped; an empty   *)
(* line is skipped, quit, exit and the end of the input leave the loop,    *)
(* tools prints list_names(), and any other line is handed to agent.run    *)
(* while agent._executor.execute is replaced by execute_with_callback,     *)
(* which passes event_callback=console_event_callback to the original.     *)
(* When run has returned, execute is put back and the loop reads the next  *)
(* line; an exception that leaves run leaves repl, with execute replaced.  *)
(* pc is "idle" before the first line and "prompt" before the later ones.  *)
(***************************************************************************)
ReplCommands == {<<"quit">>, <<"exit">>, <<"tools">>}

\* repl is at input()
AtPrompt == agent.pc \in {"idle", "prompt"}

\* `if not raw: continue`, and the tools command, which only prints
ReplSkip(line) ==
    /\ AtPrompt
    /\ Strip(line) = <<>> \/ Strip(line) = <<"tools">>
    /\ UNCHANGED vars

\* quit or exit: break
ReplQuit(line) ==
    /\ AtPrompt
    /\ Strip(line) \in {<<"quit">>, <<"exit">>}
    /\ agent' = [agent EXCEPT !.pc = "exited"]
    /\ UNCHANGED <<reg, tools, calls, clock, callback_calls>>

\* input() raises EOFError or KeyboardInterrupt: break
ReplEof ==
    /\ AtPrompt
    /\ agent' = [agent EXCEPT !.pc = "exited"]
    /\ UNCHANGED <<reg, tools, calls, clock, callback_calls>>

\* agent._executor.execute = execute_with_callback; agent.run(raw), up to the
\* prompt: raw is stripped and not empty, so run passes its first test
ReplRun(line) ==
    /\ AtPrompt
    /\ agent.runs < MaxTurns
    /\ Strip(line) # <<>>
    /\ Strip(line) \notin ReplCommands
    /\ agent' = [EnteredRun(Strip(line)) EXCEPT
                    !.pc = "generate", !.patched = TRUE,
                    !.prompt = user_prompt(build_tool_listing(list_metadata(tools)),
                                           Strip(line))]
    /\ UNCHANGED <<reg, tools, calls, clock, callback_calls>>

\* agent.run(raw) has returned: agent._executor.execute = original_execute, and
\* back to the top of the loop.  The locals of run and the activation of
\* execute are gone; the counts stay.
ReplRestore ==
    /\ agent.pc = "returned"
    /\ agent.patched
    /\ agent' = [IdleAgent EXCEPT
                    !.pc = "prompt", !.runs = agent.runs,
                    !.backend_calls = agent.backend_calls,
                    !.executor_calls = agent.executor_calls,
                    !.entry = [backend_calls |-> agent.backend_calls,
                               executor_calls |-> agent.executor_calls]]
    /\ calls' = [calls EXCEPT !["c1"] = IdleCall]
    /\ UNCHANGED <<reg, tools, clock, callback_calls>>

\* str(exc) of the exceptions the backend call raises
BackendErrors == {"timeout", "quota"}

\* 2. self._generate(user_prompt) raises, with no handler around the call
GenerateRaises_unguarded(exc) ==
    /\ agent.pc = "generate"
    /\ agent' = [agent EXCEPT !.pc = "raised", !.exc = exc,
                              !.backend_calls = @ + 1, !.backend_exc = exc]
    /\ UNCHANGED <<reg, tools, calls, clock, callback_calls>>

\* 2. self._generate(user_prompt) raises exc
GenerateRaises(exc) ==
    /\ agent.pc = "generate"
    /\ agent' = [agent EXCEPT !.pc = "returned",
                              !.backend_calls = @ + 1,
                              !.backend_exc = exc,
                              !.result = Failure(<<"Gemini API call failed: ", exc>>)]
    /\ UNCHANGED <<reg, tools, calls, clock, callback_calls>>

\* 2. self._generate(user_prompt) returns response.text: a str
GenerateReturns(text) ==
    /\ agent.pc = "generate"
    /\ agent' = [agent EXCEPT !.pc = "parse", !.backend_calls = @ + 1, !.raw = text,
                              !.has_text = TRUE]
    /\ UNCHANGED <<reg, tools, calls, clock, callback_calls>>

\* 2. response.text is None when the response holds no text part
GenerateReturnsNone ==
    /\ agent.pc = "generate"
    /\ agent' = [agent EXCEPT !.pc = "parse_none", !.backend_calls = @ + 1]
    /\ UNCHANGED <<reg, tools, calls, clock, callback_calls>>

\* 3. _extract_json(None): re.search raises TypeError
ExtractNone ==
    /\ agent.pc = "parse_none"
    /\ agent' = [agent EXCEPT !.pc = "raised", !.exc = "TypeError"]
    /\ UNCHANGED <<reg, tools, calls, clock, callback_calls>>

Decision == json_loads(extract_json(agent.raw))

\* metadata holding the text recovered by _extract_json
RawMetadata_recovered == {<<"raw", extract_json(agent.raw)>>}

\* metadata={"raw": raw_text}
RawMetadata == {<<"raw", agent.raw>>}

\* f"Model returned invalid JSON: {exc}\nRaw response was:\n{raw_text}"
invalid_json_message(raw) ==
    <<"Model returned invalid JSON: ", "JSONDecodeError", " Raw response was: ">> \o raw

\* 3. json.JSONDecodeError
ParseInvalid ==
    /\ agent.pc = "parse"
    /\ ~Decision.ok
    /\ agent' = [agent EXCEPT
                    !.pc = "returned",
                    !.result = ToolResult(FALSE, "None", invalid_json_message(agent.raw),
                                   RawMetadata)]
    /\ UNCHANGED <<reg, tools, calls, clock, callback_calls>>

\* 4. not isinstance(decision, dict)
NotAnObject ==
    /\ agent.pc = "parse"
    /\ Decision.ok
    /\ Decision.val.t # "dict"
    /\ agent' = [agent EXCEPT
                    !.pc = "returned",
                    !.result = ToolResult(FALSE, "None",
                                   <<"Expected a JSON object, got: ", TypeName(Decision.val)>>,
                                   RawMetadata)]
    /\ UNCHANGED <<reg, tools, calls, clock, callback_calls>>

IsDecision == Decision.ok /\ Decision.val.t = "dict"

DecidedTool == JsonGet(Decision.val, "tool", [t |-> "null"])

\* decision.get("arguments"), with no default
DecidedArguments_required == JsonGet(Decision.val, "arguments", [t |-> "null"])

\* decision.get("arguments", {})
DecidedArguments == JsonGet(Decision.val, "arguments", [t |-> "dict", items |-> <<>>])

\* the error of a tool=null decision
tool_null_message ==
    <<"Model responded with tool=null - no suitable tool found for this instruction.">>

\* 4. tool_name is None
ToolNull ==
    /\ agent.pc = "parse"
    /\ IsDecision
    /\ DecidedTool.t = "null"
    /\ agent' = [agent EXCEPT
                    !.pc = "returned",
                    !.result = ToolResult(FALSE, "None", tool_null_message, RawMetadata)]
    /\ UNCHANGED <<reg, tools, calls, clock, callback_calls>>

\* 4. not isinstance(arguments, dict)
ArgumentsNotAnObject ==
    /\ agent.pc = "parse"
    /\ IsDecision
    /\ DecidedTool.t # "null"
    /\ DecidedArguments.t # "dict"
    /\ agent' = [agent EXCEPT
                    !.pc = "returned",
                    !.result = ToolResult(FALSE, "None",
                                   <<"'arguments' must be a JSON object, got: ",
                                     TypeName(DecidedArguments)>>,
                                   RawMetadata)]
    /\ UNCHANGED <<reg, tools, calls, clock, callback_calls>>

CanDelegate ==
    /\ agent.pc = "parse"
    /\ IsDecision
    /\ DecidedTool.t # "null"
    /\ DecidedArguments.t = "dict"

\* the parameter names of execute(self, tool_name, *, event_callback=None, **kwargs)
\* that a keyword argument cannot also bind
PositionalNames == {"self", "tool_name"}

\* the keys of arguments that make the call a TypeError: through
\* execute_with_callback(tool_name, **kwargs) the key event_callback reaches
\* original_execute(tool_name, event_callback=console_event_callback, **kwargs)
\* as a second value for that parameter
UnbindableNames == IF agent.patched THEN PositionalNames \cup {"event_callback"}
                   ELSE PositionalNames

\* 5. self._executor.execute(tool_name, **arguments): a key of arguments that
\* names a parameter already bound is a TypeError at the call
DelegateBindError ==
    /\ CanDelegate
    /\ Range(DictKeys(DecidedArguments.items)) \cap UnbindableNames # {}
    /\ agent' = [agent EXCEPT !.pc = "raised", !.exc = "TypeError"]
    /\ UNCHANGED <<reg, tools, calls, clock, callback_calls>>

\* the event_callback parameter as bound by **arguments
BoundCallback(items) ==
    IF DictHas(items, "event_callback") /\ DictGet(items, "event_callback").t # "null"
    THEN "noncallable" ELSE "None"

\* the event_callback that execute is entered with
EnteredCallback(items) == IF agent.patched THEN "console" ELSE BoundCallback(items)

\* the **kwargs of execute as bound by **arguments
BoundKwargs(items) == AsKwargs(items, Range(DictKeys(items)) \ {"event_callback"})

\* 5. self._executor.execute(tool_name, **arguments) is entered
Delegate ==
    /\ CanDelegate
    /\ Range(DictKeys(DecidedArguments.items)) \cap UnbindableNames = {}
    /\ calls["c1"].pc = "idle"
    /\ calls' = [calls EXCEPT !["c1"] =
                    Entered(AsToolName(DecidedTool),
                            BoundKwargs(DecidedArguments.items),
                            EnteredCallback(DecidedArguments.items))]
    /\ agent' = [agent EXCEPT !.pc = "executing", !.executor_calls = @ + 1]
    /\ UNCHANGED <<reg, tools, clock, callback_calls>>

\* return self._executor.execute(...)
returned_by_run_rewrapped(result) ==
    IF result.success THEN result ELSE Failure(<<"Tool failed: ">> \o result.error)

returned_by_run(result) == result

ReturnExecuted ==
    /\ agent.pc = "executing"
    /\ calls["c1"].pc = "returned"
    /\ agent' = [agent EXCEPT !.pc = "returned",
                              !.result = returned_by_run(calls["c1"].result)]
    /\ UNCHANGED <<reg, tools, calls, clock, callback_calls>>

\* an exception that left execute leaves run
PropagateExecuted ==
    /\ agent.pc = "executing"
    /\ calls["c1"].pc = "raised"
    /\ agent' = [agent EXCEPT !.pc = "raised", !.exc = calls["c1"].exc]
    /\ UNCHANGED <<reg, tools, calls, clock, callback_calls>>

(***************************************************************************)
(* Spec: a caller makes execute calls, one after the other, on a registry  *)
(* that was filled at start-up.                                            *)
(***************************************************************************)
\* no registry operation made yet; stored is the instance last stored under
\* each name, by the operations made so far
IdleReg(d) ==
    [op |-> "None", arg |-> "None", before |-> d, value |-> "None", exc |-> "None",
     message |-> <<>>, stored |-> [n \in ToolNames |-> get_or_none(d, n)]]

Init ==
    /\ tools \in Registries
    /\ calls = [c \in CallIds |-> IdleCall]
    /\ clock = 0
    /\ callback_calls = 0
    /\ agent = IdleAgent
    /\ reg = IdleReg(tools)

Call ==
    \E name \in ToolNameValues, kwargs \in Kwargs, callback \in {"None", "faulty"} :
        Begin("c1", name, kwargs, callback)

Next ==
    \/ Call
    \/ LookupStarted("c1")
    \/ LookupUnhashable("c1")
    \/ LookupFailed("c1")
    \/ LookupCompleted("c1")
    \/ ValidationStarted("c1")
    \/ ValidateRaises("c1")
    \/ ValidationFailed("c1")
    \/ ExecutionStarted("c1")
    \/ ToolExecute("c1")
    \/ ToolReturns("c1")
    \/ ExecutionFailed("c1")
    \/ ExecutionBadReturn("c1")
    \/ ExecutionCompleted("c1")
    \/ Emit("c1")

Spec == Init /\ [][Next]_vars

(***************************************************************************)
(* Properties of ToolExecutor.execute.                                     *)
(***************************************************************************)
StagesOf(events) == [i \in 1..Len(events) |-> events[i].stage]

Last(s) == s[Len(s)]

Finished(c) == calls[c].pc \in {"returned", "raised"}

SuccessStages ==
    <<"tool_lookup_started", "tool_lookup_completed", "validation_started",
      "execution_started", "execution_completed">>

\* C1: ToolExecutor.execute never raises: whatever the registry, the tool
\* name value, the arguments, the callback and the tool's behaviour, the call
\* ends by returning a ToolResult, never by an exception.
C1_ExecuteNeverRaises == \A c \in CallIds : calls[c].pc # "raised"

\* C2: when the tool's execute raises an exception after validation passed,
\* execute returns success=false with an error naming the tool and the
\* exception and a non-empty metadata.traceback; the event stream ends with
\* execution_failed (type error) and holds no execution_completed.
C2_ToolExceptionContained ==
    \A c \in CallIds :
        calls[c].beh = "raise" =>
            /\ calls[c].pc \in {"invoked", "emit", "returned"}
            /\ calls[c].pc = "emit" =>
                   /\ calls[c].pending[1].stage = "execution_failed"
                   /\ calls[c].pending[1].type = "error"
                   /\ calls[c].resume.pc = "returned"
            /\ calls[c].pc = "returned" =>
                   /\ calls[c].result.success = FALSE
                   /\ calls[c].tool_name \in Range(calls[c].result.error)
                   /\ "boom" \in Range(calls[c].result.error)
                   /\ \E item \in calls[c].result.metadata :
                          item[1] = "traceback" /\ item[2] # ""
                   /\ Last(calls[c].attempted).stage = "execution_failed"
                   /\ Last(calls[c].attempted).type = "error"
            /\ "execution_completed" \notin Range(StagesOf(calls[c].attempted))
            /\ calls[c].callback \in {"observer", "faulty"} =>
                   calls[c].delivered = calls[c].attempted

C2_Witness ==
    /\ calls["c1"].pc = "returned"
    /\ calls["c1"].beh = "raise"
    /\ calls["c1"].callback = "faulty"
    /\ Last(calls["c1"].delivered).stage = "execution_failed"

\* C3: a call whose tool is registered, whose required inputs are present and
\* whose tool returns successfully delivers to the callback exactly the stages
\* tool_lookup_started, tool_lookup_completed, validation_started,
\* execution_started, execution_completed, in this order.
C3_SuccessStageOrder ==
    \A c \in CallIds :
        (calls[c].pc = "returned" /\ calls[c].beh = "ok") =>
            /\ calls[c].result.success
            /\ StagesOf(calls[c].attempted) = SuccessStages
            /\ calls[c].callback \in {"observer", "faulty"} =>
                   StagesOf(calls[c].delivered) = SuccessStages

C3_Witness ==
    /\ calls["c1"].pc = "returned"
    /\ calls["c1"].beh = "ok"
    /\ calls["c1"].callback = "faulty"
    /\ Len(calls["c1"].delivered) = 5
    /\ schema_required(calls["c1"].tool) # <<>>

\* C4: for a tool name that is not registered, execute returns success=false
\* with an error containing the requested name, the stages are exactly
\* tool_lookup_started, tool_lookup_failed, and no tool's execute is invoked.
C4_UnknownToolHalts ==
    \A c \in CallIds :
        (/\ calls[c].pc # "idle"
         /\ Hashable(calls[c].tool_name)
         /\ ~DictHas(tools, calls[c].tool_name)) =>
            /\ calls[c].pc \in {"entry", "emit", "lookup", "returned"}
            /\ calls[c].pc = "emit" =>
                   calls[c].pending[1].stage \in {"tool_lookup_started", "tool_lookup_failed"}
            /\ calls[c].invocations = <<>>
            /\ Range(StagesOf(calls[c].attempted))
                   \subseteq {"tool_lookup_started", "tool_lookup_failed"}
            /\ calls[c].pc = "returned" =>
                   /\ calls[c].result.success = FALSE
                   /\ calls[c].tool_name \in Range(calls[c].result.error)
                   /\ StagesOf(calls[c].attempted)
                          = <<"tool_lookup_started", "tool_lookup_failed">>

C4_Witness ==
    /\ calls["c1"].pc = "returned"
    /\ calls["c1"].tool_name = "zz"
    /\ calls["c1"].callback = "faulty"
    /\ StagesOf(calls["c1"].delivered) = <<"tool_lookup_started", "tool_lookup_failed">>
    /\ tools # <<>>

\* the required inputs of tool t, by input_schema["required"], that kwargs omits
OmittedRequired(t, kwargs) == {k \in Range(schema_required(t)) : k \notin DOMAIN kwargs}

\* C5: for every registered tool and every argument map that omits at least
\* one required input of that tool, execute returns success=false with an
\* error naming each missing key, the stages end with validation_failed, no
\* execution_started event fires and the tool's execute is never invoked.
C5_MissingInputHalts ==
    \A c \in CallIds :
        (/\ calls[c].tool # "None"
         /\ OmittedRequired(calls[c].tool, calls[c].kwargs) # {}) =>
            /\ calls[c].invocations = <<>>
            /\ "execution_started" \notin Range(StagesOf(calls[c].attempted))
            /\ calls[c].pc = "returned" =>
                   /\ calls[c].result.success = FALSE
                   /\ OmittedRequired(calls[c].tool, calls[c].kwargs)
                          \subseteq Range(calls[c].result.error)
                   /\ Last(calls[c].attempted).stage = "validation_failed"

\* C7: when the tool's execute returns normally, exactly one
\* execution_completed event is emitted, of type status if the returned
\* ToolResult has success=true and error if it has success=false, and no
\* execution_failed event is emitted.
C7_CompletedTypeFollowsSuccess ==
    \A c \in CallIds :
        calls[c].beh \in {"ok", "fail"} =>
            LET evs == calls[c].attempted \o calls[c].pending
                done == {i \in 1..Len(evs) : evs[i].stage = "execution_completed"}
            IN  /\ Cardinality(done) = IF calls[c].pc = "invoked" THEN 0 ELSE 1
                /\ calls[c].pc \in {"invoked", "emit", "returned"}
                /\ calls[c].pc = "returned" => calls[c].pending = <<>>
                /\ \A i \in done :
                       evs[i].type = IF Last(calls[c].invocations).returned.success
                                     THEN "status" ELSE "error"
                /\ "execution_failed" \notin Range(StagesOf(evs))

C7_Witness ==
    /\ calls["c1"].pc = "returned"
    /\ calls["c1"].beh = "fail"
    /\ calls["c1"].callback = "faulty"
    /\ Last(calls["c1"].delivered).stage = "execution_completed"
    /\ Last(calls["c1"].delivered).type = "error"

(***************************************************************************)
(* SpecPair: the same call made twice on the same registry, with the same  *)
(* tool name and arguments: first c2 with no callback or with one that     *)
(* never raises, then c1 with a callback that may raise at any stage.      *)
(***************************************************************************)
PairCall ==
    \E name \in ToolNameValues, kwargs \in Kwargs, quiet \in {"None", "observer"} :
        /\ calls["c1"].pc = "idle"
        /\ calls["c2"].pc = "idle"
        /\ calls' = [calls EXCEPT !["c1"] = Entered(name, kwargs, "faulty"),
                                  !["c2"] = Entered(name, kwargs, quiet)]
        /\ UNCHANGED <<reg, tools, clock, agent, callback_calls>>

QuietStep == ExecuteStep("c2")

FaultyStep == Finished("c2") /\ ExecuteStep("c1")

PairNext == PairCall \/ QuietStep \/ FaultyStep

SpecPair == Init /\ [][PairNext]_vars

\* an event without its timestamp
Untimed(events) ==
    [i \in 1..Len(events) |->
        [type |-> events[i].type, stage |-> events[i].stage,
         message |-> events[i].message, tool |-> events[i].tool]]

\* C6: a callback that raises at any subset of the stages does not change the
\* outcome: with the same registry, tool name, arguments and tool behaviour,
\* the call returns the same ToolResult (or ends the same way), attempts the
\* same sequence of stages and invokes the tool as often as the call whose
\* callback never raises or is absent.
C6_CallbackCannotAlterOutcome ==
    (/\ Finished("c1")
     /\ Finished("c2")
     /\ calls["c1"].beh = calls["c2"].beh) =>
        /\ calls["c1"].pc = calls["c2"].pc
        /\ calls["c1"].exc = calls["c2"].exc
        /\ calls["c1"].result = calls["c2"].result
        /\ Untimed(calls["c1"].attempted) = Untimed(calls["c2"].attempted)
        /\ calls["c1"].invocations = calls["c2"].invocations

C6_Witness ==
    /\ calls["c1"].pc = "returned"
    /\ calls["c2"].pc = "returned"
    /\ calls["c2"].callback = "observer"
    /\ calls["c1"].beh = "ok"
    /\ calls["c2"].beh = "ok"
    /\ calls["c1"].cbRaised = Range(SuccessStages)
    /\ Len(calls["c1"].invocations) = 1

(***************************************************************************)
(* SpecAgent: an agent on a registry that was filled at start-up.  Its run *)
(* is called once by a caller, or by main.repl for up to MaxTurns lines of *)
(* one session; the backend answers with any of RawTexts, with no text, or *)
(* fails.                                                                  *)
(***************************************************************************)
Run == \E instruction \in Instructions : RunEmpty(instruction) \/ RunPrompt(instruction)

Generate ==
    \/ \E exc \in BackendErrors : GenerateRaises(exc)
    \/ GenerateReturnsNone
    \/ \E text \in RawTexts : GenerateReturns(text)

\* the registries an agent is built on: none, one or two tools, in either
\* order of registration
AgentRegistries ==
    {<<>>, <<<<"a", "t1">>>>, <<<<"ab", "t3">>>>,
     <<<<"ab", "t4">>, <<"a", "t2">>>>, <<<<"a", "t1">>, <<"ab", "t3">>>>}

InitAgent ==
    /\ tools \in AgentRegistries
    /\ calls = [c \in CallIds |-> IdleCall]
    /\ clock = 0
    /\ callback_calls = 0
    /\ agent = IdleAgent
    /\ reg = IdleReg(tools)

\* a line typed at the prompt of main.repl
ReplLines ==
    {<<>>, <<" ">>, <<"i">>, <<" ", "i", " ">>, <<" ", "tools">>, <<"quit", " ">>}
        \cup ReplCommands

Repl ==
    \/ \E line \in ReplLines : ReplSkip(line) \/ ReplQuit(line) \/ ReplRun(line)
    \/ ReplEof
    \/ ReplRestore

AgentNext ==
    \/ Run
    \/ Repl
    \/ Generate
    \/ ExtractNone
    \/ ParseInvalid
    \/ NotAnObject
    \/ ToolNull
    \/ ArgumentsNotAnObject
    \/ DelegateBindError
    \/ Delegate
    \/ ExecuteStep("c1")
    \/ ReturnExecuted
    \/ PropagateExecuted

SpecAgent == InitAgent /\ [][AgentNext]_vars

\* C8: results pass through the layers unchanged: execute returns the very
\* ToolResult the tool returned, whether success is true or false, and
\* Agent.run returns what execute returned, without re-wrapping.
C8_ResultsPassThrough ==
    /\ \A c \in CallIds :
          (calls[c].pc = "returned" /\ calls[c].beh \in {"ok", "fail"}) =>
              calls[c].result = Last(calls[c].invocations).returned
    /\ (agent.pc = "returned" /\ ExecutorCallsOfRun > 0) =>
          /\ calls["c1"].pc = "returned"
          /\ agent.result = calls["c1"].result

C8_Witness ==
    /\ agent.pc = "returned"
    /\ calls["c1"].pc = "returned"
    /\ calls["c1"].beh = "fail"
    /\ agent.result = tool_execute("fail")

\* C9: Agent.run never raises: whatever the instruction, the backend's
\* behaviour, the parsed decision and the registry, the call returns a
\* ToolResult.
C9_RunNeverRaises == agent.pc # "raised"

\* C10: for an instruction that is empty or only whitespace, Agent.run returns
\* success=false with the error "Instruction must not be empty." and calls
\* neither the model backend nor the Executor.
C10_EmptyInstructionRejected ==
    (agent.pc \notin {"idle", "prompt", "exited"} /\ Strip(agent.instruction) = <<>>) =>
        /\ agent.pc = "returned"
        /\ agent.result = Failure(<<"Instruction must not be empty.">>)
        /\ BackendCallsOfRun = 0
        /\ ExecutorCallsOfRun = 0
        /\ calls["c1"].pc = "idle"

C10_Witness ==
    /\ agent.pc = "returned"
    /\ agent.instruction = <<" ", " ">>
    /\ agent.result.success = FALSE

\* C11: when the model backend call fails with an exception, Agent.run
\* returns success=false with the error "Gemini API call failed: <exc>", the
\* exception does not escape, and neither the Executor nor any tool is invoked.
C11_BackendFailureContained ==
    agent.backend_exc # "None" =>
        /\ agent.pc = "returned"
        /\ agent.result = Failure(<<"Gemini API call failed: ", agent.backend_exc>>)
        /\ BackendCallsOfRun = 1
        /\ ExecutorCallsOfRun = 0
        /\ calls["c1"].pc = "idle"
        /\ calls["c1"].invocations = <<>>

C11_Witness ==
    /\ agent.pc = "returned"
    /\ agent.backend_exc = "quota"
    /\ agent.result.error = <<"Gemini API call failed: ", "quota">>
    /\ tools # <<>>

\* the error texts of the two other decision failure modes: a response that is
\* not JSON, and a tool name that is not registered
InvalidJsonErrors ==
    {invalid_json_message(raw) : raw \in {r \in RawTexts : ~json_loads(extract_json(r)).ok}}

NotRegisteredErrors ==
    {lookup_failed_message(name, list_names(d)) :
        name \in ToolNameValues \cup {"<int>", "None"}, d \in Registries}

\* the backend answered with a text that is a valid JSON object whose tool is
\* null or missing, and run is past its decision
DeclinedDecision ==
    /\ agent.has_text
    /\ agent.pc # "parse"
    /\ json_loads(agent.raw).ok
    /\ json_loads(agent.raw).val.t = "dict"
    /\ JsonGet(json_loads(agent.raw).val, "tool", [t |-> "null"]).t = "null"

\* C12: for every response that is a valid JSON object with tool null or
\* with no tool key, Agent.run returns a failure whose error text differs from
\* the text of every invalid-JSON failure and of every not-registered failure,
\* and the Executor is not invoked.
C12_DeclineDistinguishable ==
    DeclinedDecision =>
        /\ agent.pc = "returned"
        /\ agent.result.success = FALSE
        /\ agent.result.error \notin InvalidJsonErrors
        /\ agent.result.error \notin NotRegisteredErrors
        /\ "Model returned invalid JSON: " \notin Range(agent.result.error)
        /\ "' is not registered. Available: " \notin Range(agent.result.error)
        /\ ExecutorCallsOfRun = 0
        /\ calls["c1"].pc = "idle"

\* the backend answered with a text that holds a JSON object naming a tool,
\* and run is past its decision
NamedDecision ==
    /\ agent.has_text
    /\ agent.pc # "parse"
    /\ IsDecision
    /\ DecidedTool.t # "null"

\* the backend answered with a text that holds a JSON object, and run is past
\* its decision
AnyDecision ==
    /\ agent.has_text
    /\ agent.pc # "parse"
    /\ IsDecision

\* C13, as claimed: an absent arguments key is treated as an empty argument
\* map; whenever the arguments value is present and is not an object,
\* Agent.run returns a failure naming the type received, without invoking the
\* Executor.
C13_ArgumentsShape ==
    AnyDecision =>
        /\ (DecidedTool.t # "null" /\ ~DictHas(Decision.val.items, "arguments")) =>
               /\ ExecutorCallsOfRun = 1
               /\ calls["c1"].pc # "idle"
               /\ DOMAIN calls["c1"].kwargs = {}
        /\ (/\ DictHas(Decision.val.items, "arguments")
            /\ DictGet(Decision.val.items, "arguments").t # "dict") =>
               /\ agent.pc = "returned"
               /\ agent.result.success = FALSE
               /\ agent.result.error =
                      <<"'arguments' must be a JSON object, got: ",
                        TypeName(DictGet(Decision.val.items, "arguments"))>>
               /\ ExecutorCallsOfRun = 0
               /\ calls["c1"].pc = "idle"

\* C13, amended: for a decision whose tool is not null, an absent arguments
\* key is treated as an empty argument map, and an arguments value that is
\* present and is not an object makes Agent.run return a failure naming the
\* type received, without invoking the Executor; for a decision whose tool is
\* null or absent, run returns the tool=null failure whatever the arguments
\* are, without invoking the Executor.
C13_ArgumentsShapeNamed ==
    /\ (AnyDecision /\ DecidedTool.t = "null") =>
           /\ agent.pc = "returned"
           /\ agent.result.success = FALSE
           /\ agent.result.error = tool_null_message
           /\ ExecutorCallsOfRun = 0
           /\ calls["c1"].pc = "idle"
    /\ NamedDecision =>
        /\ ~DictHas(Decision.val.items, "arguments") =>
               /\ ExecutorCallsOfRun = 1
               /\ calls["c1"].pc # "idle"
               /\ DOMAIN calls["c1"].kwargs = {}
               /\ calls["c1"].callback = IF agent.patched THEN "console" ELSE "None"
        /\ (/\ DictHas(Decision.val.items, "arguments")
            /\ DictGet(Decision.val.items, "arguments").t # "dict") =>
               /\ agent.pc = "returned"
               /\ agent.result.success = FALSE
               /\ agent.result.error =
                      <<"'arguments' must be a JSON object, got: ",
                        TypeName(DictGet(Decision.val.items, "arguments"))>>
               /\ TypeName(DictGet(Decision.val.items, "arguments"))
                      \in {"NoneType", "list", "str", "int"}
               /\ ExecutorCallsOfRun = 0
               /\ calls["c1"].pc = "idle"

C13_Witness ==
    /\ NamedDecision
    /\ DictHas(Decision.val.items, "arguments")
    /\ agent.pc = "returned"
    /\ agent.result.error = <<"'arguments' must be a JSON object, got: ", "list">>

\* run returned a failure of decoding or of shape validation
DecodeFailure ==
    /\ agent.has_text
    /\ agent.pc = "returned"
    /\ ExecutorCallsOfRun = 0

\* C14: for every Agent.run call that fails at decoding or shape validation
\* (invalid JSON, non-object JSON value, tool null, non-object arguments), the
\* result's metadata.raw is the model response text exactly as received, not
\* the substring recovered by the JSON extraction step.
C14_RawPreserved ==
    DecodeFailure =>
        /\ agent.result.success = FALSE
        /\ agent.result.error[1] \in
               {"Model returned invalid JSON: ", "Expected a JSON object, got: ",
                tool_null_message[1], "'arguments' must be a JSON object, got: "}
        /\ agent.result.metadata = {<<"raw", agent.raw>>}

C14_Witness ==
    /\ DecodeFailure
    /\ extract_json(agent.raw) # agent.raw
    /\ Len(extract_json(agent.raw)) > 2
    /\ agent.result.error = tool_null_message
    /\ <<"raw", agent.raw>> \in agent.result.metadata

(***************************************************************************)
(* SpecText: step 3 of Agent.run on its own.  A response text is received, *)
(* _extract_json recovers a substring and json.loads decodes it.  The      *)
(* response is a decision object in one of its wrappings, or any other     *)
(* text.                                                                   *)
(***************************************************************************)
DecisionObjects ==
    {DecisionText(t, a) :
        t \in {<<"\"a\"">>, <<"null">>, <<Quote, "w", Quote>>},
        a \in {<<"{", "}">>,
               <<"{", "\"x\"", ":", "\"v\"", "}">>,
               <<"{", "\"x\"", ":", "{", "\"y\"", ":", "null", "}", "}">>,
               <<"{", "\"x\"", ":", Quote, "{", Quote, "}">>,
               <<"{", "\"x\"", ":", Quote, "}", " ", "FENCE", Quote, "}">>,
               <<"{", "\"x\"", ":", Quote, "FENCE", "{", "}", "FENCE", Quote, "}">>}}

\* prose that holds no brace
ProseTexts == {<<>>, <<"w", " ">>, <<" ", "w", ":", " ">>, <<"json", " ">>}

Wrappings ==
    {[kind |-> "prose", pre |-> a, post |-> b] : a \in ProseTexts, b \in ProseTexts}
    \cup {[kind |-> "fence", pre |-> <<"FENCE">>, post |-> <<"FENCE">>],
          [kind |-> "fence", pre |-> <<"FENCE", "json">>, post |-> <<"FENCE">>],
          [kind |-> "fence", pre |-> <<"FENCE", "json", " ">>, post |-> <<" ", "FENCE">>],
          [kind |-> "fence", pre |-> <<"FENCE", " ", " ">>, post |-> <<" ", "FENCE">>],
          [kind |-> "fence", pre |-> <<"w", " ", "FENCE", "json", " ">>,
                             post |-> <<" ", "FENCE", " ", "w">>]}

Wrap(d, w) == w.pre \o d \o w.post

\* texts on which the tiers of _extract_json disagree
TierTexts ==
    LET d == DecisionText(<<"\"a\"">>, <<"{", "}">>)
    IN  {<<"{", "w", "}", " ", "FENCE", "json", " ">> \o d \o <<" ", "FENCE", " ", "{", "}">>,
         <<"FENCE">> \o d \o <<"FENCE", " ", "FENCE", "{", "}", "FENCE">>,
         <<"FENCE", "w", " ">> \o d \o <<"FENCE">>,
         <<"FENCE">> \o d \o <<"w", "FENCE">>,
         <<"FENCE", "json", "json">> \o d \o <<"FENCE">>,
         <<"{", "w", "}", " ", "FENCE", "w", " ">> \o d \o <<" ", "FENCE">>,
         <<"w", " ", "{", "w", "}", " ", "w", " ", "{", "}", " ", "w">>,
         <<" ", "}", " ", "w", " ", "{", " ">>,
         <<" ", " ", "{", "w", " ">>,
         <<" ", "w", " ", "}", " ", " ">>,
         <<" ", " ">>}

IdleText ==
    [pc |-> "start", d |-> <<>>, wrapping |-> "None", raw |-> <<>>,
     json_str |-> <<>>, decision |-> ParseFail]

InitText ==
    /\ tools = <<>>
    /\ calls = [c \in CallIds |-> IdleCall]
    /\ clock = 0
    /\ callback_calls = 0
    /\ agent = IdleText
    /\ reg = IdleReg(tools)

\* raw_text = self._generate(user_prompt): a decision object in a wrapping
ReceiveWrapped(d, w) ==
    /\ agent.pc = "start"
    /\ agent' = [agent EXCEPT !.pc = "received", !.d = d, !.wrapping = w.kind,
                              !.raw = Wrap(d, w)]
    /\ UNCHANGED <<reg, tools, calls, clock, callback_calls>>

\* raw_text = self._generate(user_prompt): any text
ReceiveText(text) ==
    /\ agent.pc = "start"
    /\ agent' = [agent EXCEPT !.pc = "received", !.raw = text]
    /\ UNCHANGED <<reg, tools, calls, clock, callback_calls>>

\* json_str = _extract_json(raw_text)
Extract ==
    /\ agent.pc = "received"
    /\ agent' = [agent EXCEPT !.pc = "extracted", !.json_str = extract_json(agent.raw)]
    /\ UNCHANGED <<reg, tools, calls, clock, callback_calls>>

\* decision = json.loads(json_str)
Loads ==
    /\ agent.pc = "extracted"
    /\ agent' = [agent EXCEPT !.pc = "loaded", !.decision = json_loads(agent.json_str)]
    /\ UNCHANGED <<reg, tools, calls, clock, callback_calls>>

TextNext ==
    \/ \E d \in DecisionObjects, w \in Wrappings : ReceiveWrapped(d, w)
    \/ \E text \in RawTexts \cup TierTexts : ReceiveText(text)
    \/ Extract
    \/ Loads

SpecText == InitText /\ [][TextNext]_vars

\* C15: JSON recovery is insensitive to wrapping: for every decision object d,
\* the text recovered from d alone, from d inside brace-free prose and from d
\* inside a fence (with or without the json tag) parses to the decision d.
C15_WrappingInsensitive ==
    (agent.pc = "loaded" /\ agent.wrapping # "None") =>
        /\ agent.decision.ok
        /\ agent.decision.val = json_loads(agent.d).val

AllSpace(text, a, b) == \A k \in a..b : IsSpace(text[k])

\* the fenced blocks of text with a {...} body, as the text spells them:
\* <<f, o, c>> with an opening fence at f, then a language tag or nothing,
\* then whitespace, the body from the brace at o to the brace at c,
\* whitespace and a closing fence
FencedBodies(text) ==
    {m \in (1..Len(text)) \X (1..Len(text)) \X (1..Len(text)) :
        /\ m[1] < m[2] /\ m[2] < m[3]
        /\ text[m[1]] = "FENCE" /\ text[m[2]] = "{" /\ text[m[3]] = "}"
        /\ \/ AllSpace(text, m[1] + 1, m[2] - 1)
           \/ text[m[1] + 1] \in {"json", "w"} /\ AllSpace(text, m[1] + 2, m[2] - 1)
        /\ \E g \in (m[3] + 1)..Len(text) :
               text[g] = "FENCE" /\ AllSpace(text, m[3] + 1, g - 1)}

\* the spans of text from a { to a later }
BraceSpans(text) ==
    {m \in (1..Len(text)) \X (1..Len(text)) :
        m[1] < m[2] /\ text[m[1]] = "{" /\ text[m[2]] = "}"}

\* C16: _extract_json applies its three tiers in order, first match wins: if
\* the text contains a fenced block with a {...} body, the result is that
\* body, even when braces occur outside the fence; otherwise the span from
\* the first { to the last } after it; otherwise the trimmed text.  When the
\* response was made by putting a decision object d in a fence, d is the body
\* of the fenced block.
C16_TiersInOrder ==
    agent.pc \in {"extracted", "loaded"} =>
        LET text == agent.raw
            out == agent.json_str
        IN  /\ agent.wrapping = "fence" => out = agent.d
            /\ (agent.wrapping = "None" /\ FencedBodies(text) # {}) =>
                   \E m \in FencedBodies(text) :
                       /\ out = SubSeq(text, m[2], m[3])
                       /\ \A n \in FencedBodies(text) :
                              m[1] < n[1] \/ (m[1] = n[1] /\ m[3] <= n[3])
            /\ (agent.wrapping = "None" /\ FencedBodies(text) = {}
                    /\ BraceSpans(text) # {}) =>
                   \E m \in BraceSpans(text) :
                       /\ out = SubSeq(text, m[1], m[2])
                       /\ \A n \in BraceSpans(text) : m[1] <= n[1] /\ n[2] <= m[2]
            /\ (agent.wrapping = "None" /\ FencedBodies(text) = {}
                    /\ BraceSpans(text) = {}) =>
                   /\ out = Strip(text)
                   /\ (out # <<>> => ~IsSpace(out[1]) /\ ~IsSpace(out[Len(out)]))

\* C17: for every decision with a non-null tool and an object arguments,
\* Agent.run delegates to the Executor with exactly that tool name and
\* exactly that argument map, and the tool, when it is invoked, receives
\* every key and value of the decision's arguments, whatever the key names.
C17_ArgumentsForwarded ==
    (NamedDecision /\ DecidedArguments.t = "dict") =>
        LET arguments == AsKwargs(DecidedArguments.items,
                                  Range(DictKeys(DecidedArguments.items)))
        IN  /\ ExecutorCallsOfRun = 1
            /\ calls["c1"].pc # "idle"
            /\ calls["c1"].tool_name = AsToolName(DecidedTool)
            /\ calls["c1"].kwargs = arguments
            /\ \A i \in 1..Len(calls["c1"].invocations) :
                   calls["c1"].invocations[i].kwargs = arguments

\* C18: one instruction causes at most one backend call and at most one tool
\* invocation: the backend is called exactly once when the instruction is not
\* empty, the Executor is called at most once and only after the backend
\* returned, and tool.execute is invoked at most once.
C18_AtMostOnce ==
    /\ BackendCallsOfRun <= 1
    /\ ExecutorCallsOfRun <= 1
    /\ Len(calls["c1"].invocations) <= 1
    /\ (agent.pc \in {"returned", "executing", "raised", "parse", "parse_none"}
        /\ ~is_empty(agent.instruction)) => BackendCallsOfRun = 1
    /\ (agent.pc # "idle" /\ is_empty(agent.instruction)) => BackendCallsOfRun = 0
    /\ (ExecutorCallsOfRun > 0 \/ calls["c1"].pc # "idle") =>
           /\ agent.has_text
           /\ BackendCallsOfRun = 1
           /\ ExecutorCallsOfRun = 1
    /\ agent.pc = "generate" => (BackendCallsOfRun = 0 /\ ExecutorCallsOfRun = 0)

C18_Witness ==
    /\ agent.pc = "returned"
    /\ BackendCallsOfRun = 1
    /\ ExecutorCallsOfRun = 1
    /\ Len(calls["c1"].invocations) = 1
    /\ agent.result.success

(***************************************************************************)
(* SpecRegistry: a caller performs register, force_register, unregister,   *)
(* get and get_or_none on a registry that starts empty.                    *)
(***************************************************************************)
RegNames == ToolNames \cup {"zz", ""}

\* the instance last stored under each name once op(arg) has been performed
StoredAfter(op, arg, stored) ==
    CASE op = "register" /\ tool_name(arg) # "" /\ stored[tool_name(arg)] = "None"
             -> [stored EXCEPT ![tool_name(arg)] = arg]
      [] op = "force_register" /\ tool_name(arg) # ""
             -> [stored EXCEPT ![tool_name(arg)] = arg]
      [] op = "unregister" /\ arg \in DOMAIN stored
             -> [stored EXCEPT ![arg] = "None"]
      [] OTHER -> stored

\* what the caller holds once op(arg) has ended with outcome out
RegistryDid(op, arg, out) ==
    [op |-> op, arg |-> arg, before |-> tools, value |-> out.value,
     exc |-> out.exc, message |-> out.message,
     stored |-> StoredAfter(op, arg, reg.stored)]

Register(tool) ==
    /\ tools' = register(tools, tool).tools
    /\ reg' = RegistryDid("register", tool, register(tools, tool))
    /\ UNCHANGED <<calls, clock, agent, callback_calls>>

ForceRegister(tool) ==
    /\ tools' = force_register(tools, tool).tools
    /\ reg' = RegistryDid("force_register", tool, force_register(tools, tool))
    /\ UNCHANGED <<calls, clock, agent, callback_calls>>

Unregister(name) ==
    /\ tools' = unregister(tools, name).tools
    /\ reg' = RegistryDid("unregister", name, unregister(tools, name))
    /\ UNCHANGED <<calls, clock, agent, callback_calls>>

Get(name) ==
    /\ tools' = get(tools, name).tools
    /\ reg' = RegistryDid("get", name, get(tools, name))
    /\ UNCHANGED <<calls, clock, agent, callback_calls>>

GetOrNone(name) ==
    /\ tools' = tools
    /\ reg' = RegistryDid("get_or_none", name,
                          Outcome(tools, get_or_none(tools, name), "None", <<>>))
    /\ UNCHANGED <<calls, clock, agent, callback_calls>>

ListNames ==
    /\ tools' = tools
    /\ reg' = RegistryDid("list_names", "None", Outcome(tools, list_names(tools), "None", <<>>))
    /\ UNCHANGED <<calls, clock, agent, callback_calls>>

ListMetadata ==
    /\ tools' = tools
    /\ reg' = RegistryDid("list_metadata", "None",
                          Outcome(tools, list_metadata(tools), "None", <<>>))
    /\ UNCHANGED <<calls, clock, agent, callback_calls>>

InitRegistry ==
    /\ tools = <<>>
    /\ calls = [c \in CallIds |-> IdleCall]
    /\ clock = 0
    /\ callback_calls = 0
    /\ agent = IdleAgent
    /\ reg = IdleReg(tools)

RegistryNext ==
    \/ \E tool \in ToolIds : Register(tool)
    \/ \E tool \in ToolIds : ForceRegister(tool)
    \/ \E name \in RegNames : Unregister(name)
    \/ \E name \in RegNames : Get(name)
    \/ \E name \in RegNames : GetOrNone(name)
    \/ ListNames
    \/ ListMetadata

SpecRegistry == InitRegistry /\ [][RegistryNext]_vars

\* the instance last stored under name and not removed since, or "None"
StoredUnder(name) == IF name \in DOMAIN reg.stored THEN reg.stored[name] ELSE "None"

\* C19: after any sequence of register, force_register and unregister, for
\* every registered name get and get_or_none return the instance most recently
\* stored under it; for every other name get fails with a not-found error
\* (KeyError) and get_or_none returns None without failing.
C19_LookupReturnsStored ==
    /\ \A n \in RegNames :
          IF StoredUnder(n) # "None"
          THEN /\ get(tools, n).exc = "None"
               /\ get(tools, n).value = StoredUnder(n)
               /\ get_or_none(tools, n) = StoredUnder(n)
          ELSE /\ get(tools, n).exc = "KeyError"
               /\ get_or_none(tools, n) = "None"
    /\ reg.op = "get" =>
          IF StoredUnder(reg.arg) # "None"
          THEN reg.exc = "None" /\ reg.value = StoredUnder(reg.arg)
          ELSE reg.exc = "KeyError"
    /\ reg.op = "get_or_none" =>
          reg.exc = "None" /\ reg.value = StoredUnder(reg.arg)

C19_Witness ==
    /\ reg.op = "get"
    /\ reg.arg = "a"
    /\ reg.value = "t2"
    /\ tools = <<<<"ab", "t4">>, <<"a", "t2">>>>

\* C20: register with a name that is already registered fails and the registry
\* keeps the first instance; force_register with a name that is already
\* registered does not fail, and afterwards get(name) returns the second
\* instance, the number of registered tools being unchanged.
C20_DuplicateNames ==
    /\ (reg.op = "register" /\ DictHas(reg.before, tool_name(reg.arg))) =>
           /\ reg.exc = "ValueError"
           /\ tools = reg.before
           /\ get(tools, tool_name(reg.arg)).value = DictGet(reg.before, tool_name(reg.arg))
    /\ (reg.op = "force_register" /\ DictHas(reg.before, tool_name(reg.arg))) =>
           /\ reg.exc = "None"
           /\ get(tools, tool_name(reg.arg)).exc = "None"
           /\ get(tools, tool_name(reg.arg)).value = reg.arg
           /\ Len(tools) = Len(reg.before)

C20_Witness ==
    /\ reg.op = "force_register"
    /\ reg.arg = "t2"
    /\ DictHas(reg.before, "a")
    /\ DictGet(reg.before, "a") = "t1"
    /\ DictGet(tools, "a") = "t2"
    /\ Len(tools) = 2

\* the messages of register's duplicate-name error
DuplicateNameMessages == {duplicate_name_message(n) : n \in RegNames}

\* C21: register and force_register both reject a tool whose name is empty
\* with an error that is distinguishable from register's duplicate-name error,
\* so that in every reachable registry state every registered tool has a
\* non-empty name and names are unique.
C21_NamesNonEmptyUnique ==
    /\ (reg.op \in {"register", "force_register"} /\ tool_name(reg.arg) = "") =>
           /\ reg.exc = "ValueError"
           /\ reg.message = no_name_message(reg.arg)
           /\ reg.message \notin DuplicateNameMessages
           /\ tools = reg.before
    /\ (reg.op = "register" /\ reg.exc # "None" /\ tool_name(reg.arg) # "") =>
           reg.message \in DuplicateNameMessages
    /\ \A i \in 1..Len(tools) :
           /\ tools[i][1] # ""
           /\ tool_name(tools[i][2]) = tools[i][1]
    /\ \A i, j \in 1..Len(tools) : tools[i][1] = tools[j][1] => i = j

C21_Witness ==
    /\ reg.op = "force_register"
    /\ reg.arg = "t5"
    /\ reg.exc = "ValueError"
    /\ Len(tools) = 2

\* C22: unregister(name) fails with a not-found error when name is not
\* registered; otherwise it removes exactly that entry: get(name) then fails,
\* get_or_none(name) is None, list_names omits name, every other entry is
\* unchanged, and a later register of the same name succeeds.
C22_UnregisterRemovesOne ==
    reg.op = "unregister" =>
        IF ~DictHas(reg.before, reg.arg)
        THEN /\ reg.exc = "KeyError"
             /\ tools = reg.before
        ELSE /\ reg.exc = "None"
             /\ get(tools, reg.arg).exc = "KeyError"
             /\ get_or_none(tools, reg.arg) = "None"
             /\ reg.arg \notin Range(list_names(tools))
             /\ Len(tools) = Len(reg.before) - 1
             /\ \A n \in RegNames \ {reg.arg} :
                    get_or_none(tools, n) = get_or_none(reg.before, n)
             /\ \A t \in ToolIds :
                    tool_name(t) = reg.arg => /\ register(tools, t).exc = "None"
                                              /\ get(register(tools, t).tools, reg.arg).value = t

C22_Witness ==
    /\ reg.op = "unregister"
    /\ reg.arg = "a"
    /\ reg.exc = "None"
    /\ Len(reg.before) = 2
    /\ tools = <<<<"ab", "t3">>>>

\* the names registered, by the record of what was stored
RegisteredNames == {n \in DOMAIN reg.stored : reg.stored[n] # "None"}

\* C23: after any sequence of register, force_register and unregister,
\* list_names (and ToolExecutor.available_tools) returns exactly the set of
\* registered names, each once, in lexicographic order, whatever the order in
\* which the tools were registered.
C23_ListNamesSorted ==
    LET out == list_names(tools)
    IN  /\ Range(out) = RegisteredNames
        /\ Len(out) = Cardinality(RegisteredNames)
        /\ \A i, j \in 1..Len(out) :
               i < j => LexLess(CodePoints(out[i]), CodePoints(out[j]))
        /\ available_tools(tools) = out
        /\ \A d \in Registries :
               Range(d) = Range(tools) => list_names(d) = out
        /\ reg.op = "list_names" => reg.value = list_names(reg.before)

C23_Witness ==
    /\ reg.op = "list_names"
    /\ tools = <<<<"ab", "t3">>, <<"a", "t1">>>>
    /\ reg.value = <<"a", "ab">>

\* C24: list_metadata (and ToolExecutor.tool_metadata, hence the listing in
\* the Agent's prompt) returns one descriptor per registered tool in the order
\* of list_names: the i-th descriptor's name is the i-th element of list_names,
\* and two registration orders that give the same set of tools give the same
\* sequence of descriptors.
C24_ListMetadataOrdered ==
    LET out   == list_metadata(tools)
        names == list_names(tools)
    IN  /\ Len(out) = Len(names)
        /\ tool_metadata(tools) = out
        /\ \A i \in 1..Len(out) : tool_name(out[i]) = names[i]
        /\ \A d \in Registries :
               Range(d) = Range(tools) => list_metadata(d) = out

\* C25: the set of missing inputs the Executor uses is input_schema.required
\* minus the keys of the supplied arguments, for every schema and every
\* argument map, also when required names a key that properties lacks; extra
\* keys are never reported and a present key counts whatever its value.
C25_MissingIsRequiredMinusSupplied ==
    \A c \in CallIds :
        (calls[c].tool # "None" /\ ~validate_overridden(calls[c].tool)) =>
            LET missing == validate_inputs(calls[c].tool, calls[c].kwargs)
                omitted == OmittedRequired(calls[c].tool, calls[c].kwargs)
            IN  /\ Range(missing) = omitted
                /\ "validation_failed" \in Range(StagesOf(calls[c].attempted)) =>
                       {k \in ArgKeys : k \in Range(Last(calls[c].attempted).message)} = omitted
                /\ "execution_started" \in Range(StagesOf(calls[c].attempted)) =>
                       omitted = {}

(***************************************************************************)
(* Concurrent execute calls.  Two threads call execute on one executor and *)
(* pass the same callback.  The activations share the registry, which      *)
(* execute only reads, the clock and the callback; everything else execute *)
(* touches is local to the activation.  A thread can be switched out       *)
(* between any two steps: after _make_event has read the clock and before  *)
(* _emit calls the callback, and after tool.execute has returned.          *)
(***************************************************************************)
ConcurrentRegistry == <<<<"a", "t1">>, <<"ab", "t4">>>>

ConcurrentKwargs == {kw \in Kwargs : DOMAIN kw \subseteq {"x"} /\ \A k \in DOMAIN kw : kw[k] = "v"}

InitConcurrent ==
    /\ tools = ConcurrentRegistry
    /\ calls = [c \in CallIds |-> IdleCall]
    /\ clock = 0
    /\ callback_calls = 0
    /\ agent = IdleAgent
    /\ reg = IdleReg(tools)

ConcurrentCall ==
    \E c \in CallIds, name \in ToolNameValues, kwargs \in ConcurrentKwargs :
        Begin(c, name, kwargs, "observer")

ConcurrentStep == \E c \in CallIds : ExecuteStep(c)

ConcurrentNext == ConcurrentCall \/ ConcurrentStep

SpecConcurrent == InitConcurrent /\ [][ConcurrentNext]_vars

\* the place of a stage in the pipeline of one execute call
StageRank(stage) ==
    CASE stage = "tool_lookup_started" -> 1
      [] stage \in {"tool_lookup_failed", "tool_lookup_completed"} -> 2
      [] stage = "validation_started" -> 3
      [] stage \in {"validation_failed", "execution_started"} -> 4
      [] stage \in {"execution_failed", "execution_completed"} -> 5

\* what the shared callback has received, as <<call, index of the event among
\* the call's own>>, in the order of the calls of it
SharedLog ==
    LET got == UNION {{<<c, i>> : i \in 1..Len(calls[c].order)} : c \in CallIds}
    IN  [k \in 1..callback_calls |-> CHOOSE p \in got : calls[p[1]].order[p[2]] = k]

\* C26: when two execute calls run concurrently and share one callback, the
\* events of each call reach the callback in that call's pipeline order, each
\* delivered before the event of the next stage of the same call is built,
\* whatever the interleaving with the events of the other call: a thread may
\* be held between reading the clock and calling the callback, and inside the
\* tool.
C26_PerCallOrder ==
    \A c \in CallIds :
        LET rec == calls[c]
        IN  /\ rec.callback = "observer" => rec.delivered = rec.attempted
            /\ Len(rec.order) = Len(rec.delivered)
            /\ \A i \in 1..Len(rec.delivered) :
                   /\ StageRank(rec.delivered[i].stage) = i
                   /\ i > 1 => rec.order[i - 1] < rec.order[i]
            /\ rec.pc # "emit" => rec.pending = <<>>
            /\ rec.pc = "emit" =>
                   /\ Len(rec.pending) = 1
                   /\ StageRank(rec.pending[1].stage) = Len(rec.attempted) + 1

\* c1 is held after its first reading of the clock, c2 runs from entry to
\* return, then c1 goes on: its first event, the oldest, is the sixth the
\* callback receives
C26_Witness ==
    /\ calls["c1"].pc = "returned"
    /\ calls["c2"].pc = "returned"
    /\ Len(calls["c1"].delivered) = 5
    /\ Len(calls["c2"].delivered) = 5
    /\ calls["c1"].delivered[1].timestamp = 0
    /\ calls["c1"].order[1] = 6
    /\ [k \in 1..5 |-> SharedLog[k][1]] = [k \in 1..5 |-> "c2"]
    /\ [k \in 1..5 |-> calls["c2"].delivered[k].timestamp] = <<1, 2, 3, 4, 5>>

\* the type that each stage's event carries
StageTypes(stage) ==
    CASE stage \in {"tool_lookup_started", "validation_started"} -> {"info"}
      [] stage \in {"tool_lookup_completed", "execution_started"} -> {"status"}
      [] stage \in {"tool_lookup_failed", "validation_failed", "execution_failed"} -> {"error"}
      [] stage = "execution_completed" -> {"status", "error"}

\* C27: every event the Executor emits has the five fields type, stage,
\* message, tool and timestamp, all populated; its tool field is the tool name
\* passed to that execute call and its type is the one fixed by its stage.
C27_EventShape ==
    \A c \in CallIds :
        \A i \in 1..Len(calls[c].attempted \o calls[c].pending) :
            LET ev == (calls[c].attempted \o calls[c].pending)[i]
            IN  /\ DOMAIN ev = {"type", "stage", "message", "tool", "timestamp"}
                /\ ev.stage \in Stages
                /\ ev.type \in StageTypes(ev.stage)
                /\ ev.message # <<>>
                /\ \A j \in 1..Len(ev.message) : ev.message[j] # "None"
                /\ ev.timestamp \in Nat
                /\ ev.tool # "None"
                /\ ev.tool = calls[c].tool_name

C27_Witness ==
    /\ calls["c1"].pc = "returned"
    /\ calls["c1"].beh = "fail"
    /\ calls["c1"].tool_name = "ab"
    /\ Len(calls["c1"].attempted) = 5
    /\ Last(calls["c1"].attempted).type = "error"
    /\ Last(calls["c1"].attempted).tool = "ab"

\* the keys of a metadata map
MetadataKeys(metadata) == {p[1] : p \in metadata}

\* the shape of a failure ToolResult that the Agent or the Executor builds
OwnFailureShape(result) ==
    /\ result.success = FALSE
    /\ result.error # <<>>
    /\ \A i \in 1..Len(result.error) : result.error[i] \notin {"", "None"}
    /\ result.output = "None"
    /\ "unset" \notin MetadataKeys(result.metadata)
    /\ MetadataKeys(result.metadata) \subseteq {"traceback", "raw"}

\* C28: every failure ToolResult that the Agent or the Executor builds itself
\* (empty instruction, backend failure, invalid JSON, bad decision shape, tool
\* null, lookup failure, validation failure, tool exception) has success=false,
\* a non-empty error, no output and a metadata map that is present; the
\* traceback key appears only for tool exceptions and the raw key only for
\* decode and shape failures.
C28_OwnFailures ==
    /\ (calls["c1"].pc = "returned" /\ calls["c1"].beh \notin {"ok", "fail"}) =>
           /\ OwnFailureShape(calls["c1"].result)
           /\ "raw" \notin MetadataKeys(calls["c1"].result.metadata)
           /\ "traceback" \in MetadataKeys(calls["c1"].result.metadata)
                  <=> calls["c1"].beh = "raise"
    /\ (agent.pc = "returned" /\ calls["c1"].beh \notin {"ok", "fail"}) =>
           /\ OwnFailureShape(agent.result)
           /\ "raw" \in MetadataKeys(agent.result.metadata) <=> DecodeFailure
           /\ "traceback" \in MetadataKeys(agent.result.metadata)
                  <=> calls["c1"].beh = "raise"
           /\ (agent.backend_exc # "None" \/ BackendCallsOfRun = 0) =>
                  agent.result.metadata = {}

C28_Witness ==
    /\ agent.pc = "returned"
    /\ calls["c1"].beh = "raise"
    /\ agent.result.success = FALSE
    /\ MetadataKeys(agent.result.metadata) = {"traceback"}

TerminalStages ==
    {"tool_lookup_failed", "validation_failed", "execution_failed", "execution_completed"}

\* C29: for every execute call that returns, the emitted stages start with
\* tool_lookup_started, hold no stage twice and end with exactly one terminal
\* stage (tool_lookup_failed, validation_failed, execution_failed or
\* execution_completed) with nothing after it; the returned ToolResult has
\* success=true exactly when that last event is execution_completed of type
\* status.
C29_OneTerminalStage ==
    \A c \in CallIds :
        calls[c].pc = "returned" =>
            LET evs == calls[c].attempted
                stages == StagesOf(evs)
            IN  /\ Len(evs) >= 2
                /\ stages[1] = "tool_lookup_started"
                /\ \A i, j \in 1..Len(stages) : stages[i] = stages[j] => i = j
                /\ {i \in 1..Len(stages) : stages[i] \in TerminalStages} = {Len(stages)}
                /\ calls[c].result.success = TRUE
                       <=> (Last(evs).stage = "execution_completed" /\ Last(evs).type = "status")

C29_Witness ==
    /\ calls["c1"].pc = "returned"
    /\ calls["c1"].result.success = TRUE
    /\ StagesOf(calls["c1"].attempted) = SuccessStages
    /\ Last(calls["c1"].attempted).type = "status"

(***************************************************************************)
(* The registry, the agent and the executor together: a program registers  *)
(* and looks up tools, one operation after another, and then calls         *)
(* Agent.run once or starts main.repl, which calls it for each line; run   *)
(* delegates to ToolExecutor.execute.                                      *)
(***************************************************************************)
SystemInstructions == {<<>>, <<" ">>, <<"i">>}

SystemTexts ==
    LET x == <<"{", "\"x\"", ":", "\"v\"", "}">>
    IN  {DecisionText(<<"null">>, <<>>),
         DecisionText(<<"\"a\"">>, <<"[", "]">>),
         DecisionText(<<"\"a\"">>,
                      <<"{", "\"x\"", ":", "\"v\"", ",", "\"tool_name\"", ":", "\"a\"", "}">>),
         DecisionText(<<"\"a\"">>, <<>>),
         DecisionText(<<"\"a\"">>, x),
         DecisionText(<<"\"ab\"">>, x),
         DecisionText(<<"\"zz\"">>, <<>>),
         DecisionText(<<"[", "\"a\"", "]">>, <<>>),
         <<" ", "w", " ", "w", " ">>,
         <<"[", "1", "]">>}

\* the program is between registry operations and has not called run yet
BeforeRun == agent.pc = "idle"

SystemRun ==
    \E instruction \in SystemInstructions : RunEmpty(instruction) \/ RunPrompt(instruction)

SystemRepl ==
    \/ \E line \in SystemInstructions \cup {<<"quit">>, <<"tools">>} :
           ReplSkip(line) \/ ReplQuit(line) \/ ReplRun(line)
    \/ ReplEof
    \/ ReplRestore

SystemGenerate ==
    \/ \E exc \in BackendErrors : GenerateRaises(exc)
    \/ GenerateReturnsNone
    \/ \E text \in SystemTexts : GenerateReturns(text)

SystemNext ==
    \/ \E tool \in ToolIds : BeforeRun /\ Register(tool)
    \/ \E tool \in ToolIds : BeforeRun /\ ForceRegister(tool)
    \/ \E name \in RegNames : BeforeRun /\ Unregister(name)
    \/ \E name \in RegNames : BeforeRun /\ Get(name)
    \/ \E name \in RegNames : BeforeRun /\ GetOrNone(name)
    \/ BeforeRun /\ ListNames
    \/ BeforeRun /\ ListMetadata
    \/ SystemRun
    \/ SystemRepl
    \/ SystemGenerate
    \/ ExtractNone
    \/ ParseInvalid
    \/ NotAnObject
    \/ ToolNull
    \/ ArgumentsNotAnObject
    \/ DelegateBindError
    \/ Delegate
    \/ ExecuteStep("c1")
    \/ ReturnExecuted
    \/ PropagateExecuted

SpecSystem == InitRegistry /\ [][SystemNext]_vars

\* the step is a successful register, force_register or unregister
SuccessfulMutation ==
    /\ reg'.op \in {"register", "force_register", "unregister"}
    /\ reg'.exc = "None"
    /\ reg'.before = tools
    /\ tools' = IF reg'.op = "unregister"
                THEN DictDel(tools, reg'.arg)
                ELSE DictSet(tools, tool_name(reg'.arg), reg'.arg)
    /\ agent' = agent
    /\ calls' = calls

\* C30: the registry's name-to-instance mapping changes only through a
\* successful register, force_register or unregister: a failed register,
\* force_register or unregister, every get, get_or_none, list_names and
\* list_metadata, and every step of ToolExecutor.execute and Agent.run leave
\* it unchanged.
C30_RegistryFrame ==
    [][/\ tools' # tools => SuccessfulMutation
       /\ (agent' # agent \/ calls' # calls) => tools' = tools]_vars

C30_Witness ==
    /\ reg.op = "register"
    /\ reg.exc = "ValueError"
    /\ reg.arg = "t2"
    /\ tools = <<<<"ab", "t4">>, <<"a", "t1">>>>
    /\ tools = reg.before
    /\ agent.pc = "returned"
    /\ calls["c1"].pc = "returned"
    /\ calls["c1"].tool = "t1"
    /\ calls["c1"].beh = "ok"

(***************************************************************************)
(* One execute call while the registry is mutated under it: between        *)
(* tool_lookup_completed and execution_started the event callback, or      *)
(* another caller holding the registry, unregisters or force-replaces      *)
(* tools.  execute reads the registry at line 181 only and keeps the       *)
(* instance in its local variable tool.                                    *)
(***************************************************************************)
MutatingKwargs == {kw \in Kwargs : DOMAIN kw \subseteq {"x"} /\ \A k \in DOMAIN kw : kw[k] = "v"}

MutatingCall ==
    \E name \in ToolNameValues, kwargs \in MutatingKwargs, callback \in {"None", "observer"} :
        Begin("c1", name, kwargs, callback)

\* the call has emitted tool_lookup_completed and not yet execution_started
Resolved ==
    /\ calls["c1"].tool # "None"
    /\ calls["c1"].invocations = <<>>
    /\ calls["c1"].pc \in {"emit", "validation", "validate", "execute"}

MutatingNext ==
    \/ MutatingCall
    \/ ExecuteStep("c1")
    \/ \E tool \in ToolIds : Resolved /\ ForceRegister(tool)
    \/ \E name \in RegNames : Resolved /\ Unregister(name)

SpecMutating == Init /\ [][MutatingNext]_vars

\* C31: execute resolves the tool once per call: the instance whose inputs
\* are validated is the instance whose execute is invoked, and it is the one
\* registered under the name at the moment of the lookup, also when the name
\* is unregistered or force-replaced after tool_lookup_completed and before
\* execution_started.
C31_ResolvedOnce ==
    [][LET old == calls["c1"]
           new == calls'["c1"]
       IN  /\ (old.pc = "lookup" /\ new.pc # "lookup") =>
                  new.tool = IF Hashable(old.tool_name)
                             THEN get_or_none(tools, old.tool_name) ELSE "None"
           /\ old.pc \notin {"idle", "entry", "lookup"} => new.tool = old.tool
           /\ (old.pc = "validate" /\ new.pc = "emit" /\ new.resume.pc = "execute") =>
                  OmittedRequired(old.tool, old.kwargs)
                      \cap Range(schema_properties(old.tool)) = {}
           /\ (old.pc = "validate" /\ new.pc = "emit" /\ new.resume.pc = "returned") =>
                  /\ new.pending[1].stage = "validation_failed"
                  /\ {k \in ArgKeys : k \in Range(new.pending[1].message)}
                         = OmittedRequired(old.tool, old.kwargs)
                               \cap Range(schema_properties(old.tool))
                  /\ new.invocations = <<>>
           /\ (old.pc = "validate" /\ new.pc # "validate") =>
                  new.pc \in {"emit", "raised"}
           /\ Len(new.invocations) # Len(old.invocations) =>
                  /\ Len(new.invocations) = Len(old.invocations) + 1
                  /\ old.tool # "None"
                  /\ Last(new.invocations).tool = old.tool
           /\ (old.invocations # <<>> /\ new.pc # "idle") =>
                  /\ Len(new.invocations) = Len(old.invocations)
                  /\ Last(new.invocations).tool = Last(old.invocations).tool]_vars

C31_Witness ==
    /\ calls["c1"].pc = "returned"
    /\ calls["c1"].result.success = TRUE
    /\ calls["c1"].kwargs = [k \in {"x"} |-> "v"]
    /\ Len(calls["c1"].invocations) = 1
    /\ calls["c1"].invocations[1].tool = "t1"
    /\ reg.op = "force_register"
    /\ reg.arg = "t2"
    /\ reg.exc = "None"
    /\ reg.before = <<<<"a", "t1">>>>
    /\ tools = <<<<"a", "t2">>>>

====
